---- MODULE Spec2Model ----
EXTENDS Integers, Sequences, FiniteSets, Bags, TLC

(***************************************************************************)
(* Verification model of the ingestion core of atgora-api:                 *)
(*   - the DID document verifier (cache-aside, soft/hard TTL,              *)
(*     background refresh),                                                *)
(*   - the createdAt clamp,                                                *)
(*   - the firehose record validator.                                      *)
(* Each component has its own specification; the variables of the other    *)
(* components stay at their initial value in it.                           *)
(***************************************************************************)

\* ------------------------------------------------------------------------
\* Verifier: constants
\* ------------------------------------------------------------------------

DID_DOC_CACHE_PREFIX == "barazo:did-doc:"

\* Soft TTL in seconds: a background refresh is triggered after this.
DID_DOC_SOFT_TTL == 3600

\* Hard TTL in seconds: expiry of the key in the store.
DID_DOC_HARD_TTL == 7200

\* The clock of the model advances in steps of one hour; Date.now() is the
\* tick count times this many milliseconds.
MsPerTick == 60 * 60 * 1000

\* Last tick of the clock.
MaxNow == 3

\* Number of background refreshes that can be in flight at once.
MaxTasks == 2

\* Callers of verify.  The synchronous stretches of verify run one at a time
\* on the event loop, and a call acts on other calls only through the store,
\* by promises that outlive it: those are the bag of detached promises.
Callers == {"c1"}

\* A DID is modelled as the sequence of its colon-separated segments.
PlcDid == <<"did", "plc", "alice">>
WebDid == <<"did", "web", "example.com">>
BareDid == <<"did", "plc">>

DIDs == {PlcDid, WebDid, BareDid}

\* ------------------------------------------------------------------------
\* Verifier: values
\* ------------------------------------------------------------------------

\* DidVerificationResult = { active: true } | { active: false; reason }
\* The optional reason is a sequence of zero or one strings.
Active == [active |-> TRUE, reason |-> <<>>]

Inactive(reason) == [active |-> FALSE, reason |-> <<reason>>]

NoResult == [active |-> FALSE, reason |-> <<>>]

REASON_TOMBSTONED == "DID has been tombstoned"

REASON_NOT_FOUND == "DID not found in PLC directory"

REASON_RESOLUTION_FAILED == "DID document resolution failed"

REASON_DEFAULT == "DID is not active"

\* CachedDidEntry = { active, reason?, resolvedAt }
NoEntry == [active |-> FALSE, reason |-> <<>>, resolvedAt |-> 0 - 1]

\* What the store holds under one key: nothing, a serialized entry, or a
\* value that is no JSON text (written by another user of the shared store).
NoValue == [raw |-> "none", entry |-> NoEntry, expireAt |-> 0]

Garbage == [raw |-> "garbage", entry |-> NoEntry, expireAt |-> (MaxNow + 1) * MsPerTick]

\* Outcomes of one request to the PLC directory.
Statuses == {200, 404, 410, 500}

NoOutcome == [kind |-> "none", status |-> 0]

Outcomes ==
  {[kind |-> "response", status |-> s] : s \in Statuses}
    \cup {[kind |-> k, status |-> 0] : k \in {"network error", "timeout"}}

\* ------------------------------------------------------------------------
\* Verifier: state
\* ------------------------------------------------------------------------

VARIABLES
  now,      \* the clock, in ticks
  store,    \* the key-value cache: key -> value with its expiry
  calls,    \* one verify invocation per caller
  tasks     \* the bag of detached promises in flight

verifierVars == <<now, store, calls, tasks>>

\* One application of clampCreatedAt, and one of validateRecord.
VARIABLES
  clampCall,
  valCall

\* The record handler: the local store (the users, replies and reactions
\* tables) and one invocation of handle per consumer of the stream.
VARIABLES
  db,
  handling

\* The auth hooks: one request per caller of the verifier, on its way
\* through requireAuth, optionalAuth or requireAdmin.
VARIABLES
  auth

\* The setup service: the row "default" of community_settings, and one
\* invocation of initialize per user.
VARIABLES
  settings,
  setup

vars ==
  <<now, store, calls, tasks, clampCall, valCall, db, handling, auth,
    settings, setup>>

\* What the verifier leaves alone, and what the pure components leave alone.
outsideVerifier == <<clampCall, valCall, db, handling, auth, settings, setup>>

outsideClamp ==
  <<now, store, calls, tasks, valCall, db, handling, auth, settings, setup>>

outsideValidator ==
  <<now, store, calls, tasks, clampCall, db, handling, auth, settings, setup>>

outsideDispatcher ==
  <<now, store, calls, tasks, clampCall, valCall, auth, settings, setup>>

\* What the auth hooks leave alone, the verifier they call apart.
outsideAuth == <<clampCall, valCall, db, handling, settings, setup>>

\* What the setup service leaves alone.
outsideSetup ==
  <<now, store, calls, tasks, clampCall, valCall, db, handling, auth>>

DateNow == now * MsPerTick

CacheKey(did) == <<DID_DOC_CACHE_PREFIX>> \o did

Keys == {CacheKey(d) : d \in DIDs}

\* A cache.set request: (key, value, 'EX', ttl).
NoRequest == [key |-> <<>>, value |-> NoValue, ttl |-> 0]

\* A verify invocation: where it stands, and what it has done so far
\* (gets: cache.get calls, fetches: awaited requests to the PLC directory,
\* refreshes: background refreshes launched, sets: cache.set calls started).
IdleCall ==
  [pc |-> "idle", did |-> <<>>, read |-> "none",
   outcome |-> NoOutcome, result |-> NoResult,
   gets |-> 0, fetches |-> 0, refreshes |-> 0, sets |-> 0, logs |-> {}]

\* A detached promise: a background refresh (pc "fetch": its request to the
\* PLC directory is in flight; pc "set": its cache.set is in flight), or the
\* cache.set that verify starts and does not await (pc "set").
NoTask == [pc |-> "none", did |-> <<>>, req |-> NoRequest]

\* ------------------------------------------------------------------------
\* Verifier: helpers
\* ------------------------------------------------------------------------

\* Mutant: the prefix is tested without its last colon.
startsWithDidPlc_noColon(did) == Len(did) >= 2 /\ did[1] = "did" /\ did[2] = "plc"

\* did.startsWith('did:plc:')
startsWithDidPlc(did) == Len(did) >= 3 /\ did[1] = "did" /\ did[2] = "plc"

\* Mutant: every status below 500 counts as ok.
responseOk_below500(o) == o.status >= 200 /\ o.status <= 499

\* response.ok
responseOk(o) == o.status >= 200 /\ o.status <= 299

\* resolveFromPlc, given how the request ended: the verdict, or a throw.
resolveFromPlc(o) ==
  IF o.kind # "response"
  THEN [threw |-> TRUE, result |-> NoResult, logs |-> {}]
  ELSE IF responseOk(o)
  THEN [threw |-> FALSE, result |-> Active, logs |-> {}]
  ELSE IF o.status = 410
  THEN [threw |-> FALSE, result |-> Inactive(REASON_TOMBSTONED), logs |-> {}]
  ELSE IF o.status = 404
  THEN [threw |-> FALSE, result |-> Inactive(REASON_NOT_FOUND), logs |-> {}]
  ELSE [threw |-> TRUE, result |-> NoResult,
        logs |-> {"Unexpected PLC directory response"}]

\* JSON.stringify of an entry, JSON.parse of a stored value.
JSON_stringify(entry) == [raw |-> "json", entry |-> entry, expireAt |-> 0]

JSON_parse(value) ==
  IF value.raw = "json"
  THEN [threw |-> FALSE, entry |-> value.entry]
  ELSE [threw |-> TRUE, entry |-> NoEntry]

\* Mutant: the entry is stored with the soft TTL.
cacheResult_softTtl(did, result) ==
  [key |-> CacheKey(did),
   value |-> JSON_stringify(
     [active |-> result.active,
      reason |-> IF ~result.active THEN result.reason ELSE <<>>,
      resolvedAt |-> DateNow]),
   ttl |-> DID_DOC_SOFT_TTL]

\* cacheResult: the cache.set request it issues (key, value, 'EX', ttl).
cacheResult(did, result) ==
  [key |-> CacheKey(did),
   value |-> JSON_stringify(
     [active |-> result.active,
      reason |-> IF ~result.active THEN result.reason ELSE <<>>,
      resolvedAt |-> DateNow]),
   ttl |-> DID_DOC_HARD_TTL]

\* The store: get answers null for a key that is absent or expired.
cacheGet(key) ==
  IF store[key].raw # "none" /\ DateNow <= store[key].expireAt
  THEN store[key]
  ELSE NoValue

cacheSet(key, value, ttl) ==
  [store EXCEPT ![key] =
     [raw |-> value.raw, entry |-> value.entry,
      expireAt |-> DateNow + ttl * 1000]]

\* Mutant: an entry exactly as old as the soft TTL counts as stale.
isPastSoftTtl_inclusive(age) == age >= DID_DOC_SOFT_TTL * 1000

\* const isPastSoftTtl = age > DID_DOC_SOFT_TTL * 1000
isPastSoftTtl(age) == age > DID_DOC_SOFT_TTL * 1000

\* The verdict verify returns from a cached entry.
cachedVerdict(entry) ==
  IF entry.active
  THEN Active
  ELSE Inactive(IF entry.reason # <<>> THEN entry.reason[1] ELSE REASON_DEFAULT)

\* verify, first lines: a DID outside did:plc is active without any lookup;
\* otherwise cache.get is issued.
verifyEntry(did) ==
  IF ~startsWithDidPlc(did)
  THEN [IdleCall EXCEPT !.pc = "done", !.did = did, !.result = Active]
  ELSE [IdleCall EXCEPT !.pc = "get", !.did = did, !.gets = 1]

\* verify, fall-through to step 2: the request to the PLC directory is sent.
fallThrough(call, read, logs) ==
  [call EXCEPT !.pc = "fetch", !.read = read, !.fetches = @ + 1,
               !.logs = @ \cup logs]

\* verify, fresh hit: return immediately.
serveFresh(call, entry) ==
  [call EXCEPT !.pc = "done", !.read = "fresh",
               !.result = cachedVerdict(entry)]

\* Mutant: no refresh is launched while one is in flight for the did.
serveStale_deduplicated(call, entry) ==
  [call EXCEPT !.pc = "done", !.read = "stale",
               !.refreshes = IF BagIn([pc |-> "fetch", did |-> call.did,
                                       req |-> [key |-> <<>>, value |-> NoValue,
                                                ttl |-> 0]], tasks)
                             THEN @ ELSE @ + 1,
               !.result = cachedVerdict(entry)]

\* Mutant: the refresh of a stale entry is awaited instead of detached.
serveStale_awaited(call, entry) == fallThrough(call, "stale", {})

\* verify, past soft TTL: backgroundRefresh(did), then return the cached
\* verdict.
serveStale(call, entry) ==
  [call EXCEPT !.pc = "done", !.read = "stale",
               !.refreshes = @ + 1, !.result = cachedVerdict(entry)]

\* verify after cache.get resolved with raw.
afterCacheGet(call, raw) ==
  IF raw.raw = "none"
  THEN fallThrough(call, "miss", {})
  ELSE LET parsed == JSON_parse(raw) IN
       IF parsed.threw
       THEN fallThrough(call, "unparsable", {"DID document cache read failed"})
       ELSE IF ~isPastSoftTtl(DateNow - parsed.entry.resolvedAt)
       THEN serveFresh(call, parsed.entry)
       ELSE serveStale(call, parsed.entry)

\* Mutant: the rejection of cache.get is not caught.
catchCacheReadError_uncaught(call) == [call EXCEPT !.pc = "rejected", !.read = "error"]

\* Mutant: a failed cache read is answered with the failure verdict.
catchCacheReadError_failClosed(call) ==
  [call EXCEPT !.pc = "done", !.read = "error",
               !.result = Inactive(REASON_RESOLUTION_FAILED)]

\* verify after cache.get rejected: the catch block.
catchCacheReadError(call) ==
  fallThrough(call, "error", {"DID document cache read failed"})

\* Mutant: the failure verdict is cached like a resolved one.
catchResolutionFailure_cached(call, logs) ==
  [call EXCEPT !.pc = "done",
               !.result = Inactive(REASON_RESOLUTION_FAILED),
               !.sets = @ + 1,
               !.logs = @ \cup logs \cup {"DID document resolution failed"}]

\* Mutant: a failed resolution is answered with active (fail open).
catchResolutionFailure_failOpen(call, logs) ==
  [call EXCEPT !.pc = "done", !.result = Active,
               !.logs = @ \cup logs \cup {"DID document resolution failed"}]

\* verify, the catch block of step 2.
catchResolutionFailure(call, logs) ==
  [call EXCEPT !.pc = "done",
               !.result = Inactive(REASON_RESOLUTION_FAILED),
               !.logs = @ \cup logs \cup {"DID document resolution failed"}]

\* verify, step 2 after resolveFromPlc resolved: cacheResult is started and
\* not awaited, the result is returned.
returnResolved(call, result) ==
  [call EXCEPT !.pc = "done", !.result = result, !.sets = @ + 1]

\* verify after the request to the PLC directory ended with outcome o.
afterResolve(call, o) ==
  LET r == resolveFromPlc(o) IN
  IF r.threw
  THEN catchResolutionFailure([call EXCEPT !.outcome = o], r.logs)
  ELSE returnResolved([call EXCEPT !.outcome = o], r.result)

\* ------------------------------------------------------------------------
\* Verifier: actions
\* ------------------------------------------------------------------------

VerifierInit ==
  /\ now = 0
  /\ store \in {[k \in Keys |-> NoValue], [k \in Keys |-> Garbage]}
  /\ calls = [c \in Callers |-> IdleCall]
  /\ tasks = EmptyBag

\* backgroundRefresh(did): resolveFromPlc is called, its promise is detached.
backgroundRefresh(did) == [NoTask EXCEPT !.pc = "fetch", !.did = did]

\* cacheResult(did, result).catch(...): the cache.set is sent, not awaited.
detachedCacheResult(did, result) ==
  [NoTask EXCEPT !.pc = "set", !.did = did, !.req = cacheResult(did, result)]

\* The detached promise a step of verify leaves behind, if any.
Detached(before, after) ==
  IF after.refreshes > before.refreshes
  THEN backgroundRefresh(after.did)
  ELSE IF after.sets > before.sets
  THEN detachedCacheResult(after.did, after.result)
  ELSE NoTask

\* A step of verify, with the promise it detaches.
VerifyStep(c, after) ==
  LET d == Detached(calls[c], after) IN
  /\ calls' = [calls EXCEPT ![c] = after]
  /\ IF d = NoTask
     THEN tasks' = tasks
     ELSE /\ BagCardinality(tasks) < MaxTasks
          /\ tasks' = tasks (+) SetToBag({d})

\* A caller invokes verify(did).
Verify(c, did) ==
  /\ calls[c].pc = "idle"
  /\ VerifyStep(c, verifyEntry(did))
  /\ UNCHANGED <<now, store>>
  /\ UNCHANGED outsideVerifier

\* cache.get resolves (with the value, or with null).
CacheGetResolves(c) ==
  /\ calls[c].pc = "get"
  /\ VerifyStep(c, afterCacheGet(calls[c], cacheGet(CacheKey(calls[c].did))))
  /\ UNCHANGED <<now, store>>
  /\ UNCHANGED outsideVerifier

\* cache.get rejects (transport error).
CacheGetRejects(c) ==
  /\ calls[c].pc = "get"
  /\ VerifyStep(c, catchCacheReadError(calls[c]))
  /\ UNCHANGED <<now, store>>
  /\ UNCHANGED outsideVerifier

\* The awaited request to the PLC directory ends with outcome o.
ResolveEnds(c, o) ==
  /\ calls[c].pc = "fetch"
  /\ VerifyStep(c, afterResolve(calls[c], o))
  /\ UNCHANGED <<now, store>>
  /\ UNCHANGED outsideVerifier

\* The caller has taken the settled promise; the slot can carry a new call.
Return(c) ==
  /\ calls[c].pc \in {"done", "rejected"}
  /\ calls' = [calls EXCEPT ![c] = IdleCall]
  /\ UNCHANGED <<now, store, tasks>>
  /\ UNCHANGED outsideVerifier

\* backgroundRefresh, .then: the result is cached with cacheResult (awaited).
refreshThen(task, result) ==
  [task EXCEPT !.pc = "set", !.req = cacheResult(task.did, result)]

\* Mutant: the failure of a background refresh is cached as a verdict.
refreshCatch_cachesFailure(task) ==
  [task EXCEPT !.pc = "set",
               !.req = cacheResult(task.did, Inactive(REASON_RESOLUTION_FAILED))]

\* Mutant: a failed background refresh is tried again.
refreshCatch_retries(task) == [NoTask EXCEPT !.pc = "fetch", !.did = task.did]

\* backgroundRefresh, .catch: a warning is logged, the promise settles.
refreshCatch(task) == NoTask

\* backgroundRefresh after its request to the PLC directory ended.
afterRefreshResolve(task, o) ==
  LET r == resolveFromPlc(o) IN
  IF r.threw THEN refreshCatch(task) ELSE refreshThen(task, r.result)

\* The bag of promises once task t has become u (NoTask: t has settled).
Settle(t, u) ==
  IF u = NoTask
  THEN tasks (-) SetToBag({t})
  ELSE (tasks (-) SetToBag({t})) (+) SetToBag({u})

\* The request of a background refresh ends with outcome o.
RefreshResolveEnds(t, o) ==
  /\ BagIn(t, tasks)
  /\ t.pc = "fetch"
  /\ tasks' = Settle(t, afterRefreshResolve(t, o))
  /\ UNCHANGED <<now, store, calls>>
  /\ UNCHANGED outsideVerifier

\* A cache.set in flight takes effect in the store; its promise settles.
CacheSetResolves(t) ==
  /\ BagIn(t, tasks)
  /\ t.pc = "set"
  /\ store' = cacheSet(t.req.key, t.req.value, t.req.ttl)
  /\ tasks' = Settle(t, NoTask)
  /\ UNCHANGED <<now, calls>>
  /\ UNCHANGED outsideVerifier

\* A cache.set in flight rejects: the .catch of its promise logs a warning.
CacheSetRejects(t) ==
  /\ BagIn(t, tasks)
  /\ t.pc = "set"
  /\ tasks' = Settle(t, refreshCatch(t))
  /\ UNCHANGED <<now, store, calls>>
  /\ UNCHANGED outsideVerifier

\* Time passes.
Tick ==
  /\ now < MaxNow
  /\ now' = now + 1
  /\ UNCHANGED <<store, calls, tasks>>
  /\ UNCHANGED outsideVerifier

VerifierNext ==
  \/ \E c \in Callers, d \in DIDs : Verify(c, d)
  \/ \E c \in Callers : CacheGetResolves(c)
  \/ \E c \in Callers : CacheGetRejects(c)
  \/ \E c \in Callers, o \in Outcomes : ResolveEnds(c, o)
  \/ \E c \in Callers : Return(c)
  \/ \E t \in BagToSet(tasks), o \in Outcomes : RefreshResolveEnds(t, o)
  \/ \E t \in BagToSet(tasks) : CacheSetResolves(t)
  \/ \E t \in BagToSet(tasks) : CacheSetRejects(t)
  \/ Tick

\* The directory answers 410 for PlcDid, whoever asks.
Gone == [kind |-> "response", status |-> 410]

\* The key of PlcDid holds nothing, or the verdict active as cached at 0.
RevokedInit ==
  /\ now = 0
  /\ store \in
       {[k \in Keys |-> NoValue],
        [k \in Keys |->
           IF k = CacheKey(PlcDid)
           THEN [raw |-> "json",
                 entry |-> [active |-> TRUE, reason |-> <<>>, resolvedAt |-> 0],
                 expireAt |-> DID_DOC_HARD_TTL * 1000]
           ELSE NoValue]}
  /\ calls = [c \in Callers |-> IdleCall]
  /\ tasks = EmptyBag

\* The steps of calls of verify for PlcDid, one after the other.
RevokedCalls ==
  \E c \in Callers :
    \/ Verify(c, PlcDid)
    \/ CacheGetResolves(c)
    \/ CacheGetRejects(c)
    \/ ResolveEnds(c, Gone)
    \/ Return(c)

\* The steps of the detached promises.
RevokedTasks ==
  \E t \in BagToSet(tasks) :
    \/ RefreshResolveEnds(t, Gone)
    \/ CacheSetResolves(t)
    \/ CacheSetRejects(t)

\* The verifier asked about PlcDid again and again while the directory
\* answers 410.
RevokedNext == RevokedCalls \/ RevokedTasks \/ Tick

\* ------------------------------------------------------------------------
\* Timestamp clamp
\* ------------------------------------------------------------------------

MAX_FUTURE_MS == 5 * 60 * 1000

MAX_PAST_MS == 60 * 60 * 1000

\* Mutant: the clamp of old timestamps is missing.
clampCreatedAt_noPastClamp(clientCreatedAt, nowDate) ==
  IF clientCreatedAt > nowDate + MAX_FUTURE_MS THEN nowDate ELSE clientCreatedAt

\* Mutant: old timestamps are clamped to now.
clampCreatedAt_pastToNow(clientCreatedAt, nowDate) ==
  LET maxFuture == nowDate + MAX_FUTURE_MS
      maxPast == nowDate - MAX_PAST_MS
  IN IF clientCreatedAt > maxFuture
     THEN nowDate
     ELSE IF clientCreatedAt < maxPast
     THEN nowDate
     ELSE clientCreatedAt

\* Mutant: the comparisons include the boundaries.
clampCreatedAt_exclusive(clientCreatedAt, nowDate) ==
  LET maxFuture == nowDate + MAX_FUTURE_MS
      maxPast == nowDate - MAX_PAST_MS
  IN IF clientCreatedAt >= maxFuture
     THEN nowDate
     ELSE IF clientCreatedAt <= maxPast
     THEN maxPast
     ELSE clientCreatedAt

\* clampCreatedAt(clientCreatedAt, now); a Date is its time value in ms.
clampCreatedAt(clientCreatedAt, nowDate) ==
  LET maxFuture == nowDate + MAX_FUTURE_MS
      maxPast == nowDate - MAX_PAST_MS
  IN IF clientCreatedAt > maxFuture
     THEN nowDate
     ELSE IF clientCreatedAt < maxPast
     THEN maxPast
     ELSE clientCreatedAt

\* The instants the clamp is applied at, and the client times tried around
\* each of them (offsets from now, in ms).
ClampNows == {0, MAX_PAST_MS, 86400000, 1000000007}

ClampOffsets ==
  {0 - 86400000, 0 - 2 * MAX_PAST_MS, 0 - MAX_PAST_MS - 1, 0 - MAX_PAST_MS,
   0 - MAX_PAST_MS + 1, 0 - 1800000, 0 - 1, 0, 1, 180000,
   MAX_FUTURE_MS - 1, MAX_FUTURE_MS, MAX_FUTURE_MS + 1, 600000, 86400000}

ClampInputs ==
  {[pc |-> "call", clientCreatedAt |-> n + d, now |-> n, returned |-> 0] :
     n \in ClampNows, d \in ClampOffsets}

ClampInit == clampCall \in ClampInputs

\* The call returns.
ClampReturns ==
  /\ clampCall.pc = "call"
  /\ clampCall' = [clampCall EXCEPT
       !.pc = "returned",
       !.returned = clampCreatedAt(clampCall.clientCreatedAt, clampCall.now)]
  /\ UNCHANGED outsideClamp

\* The next record is clamped.
ClampCalled(input) ==
  /\ clampCall.pc = "returned"
  /\ clampCall' = input
  /\ UNCHANGED outsideClamp

ClampNext ==
  \/ ClampReturns
  \/ \E input \in ClampInputs : ClampCalled(input)

\* ------------------------------------------------------------------------
\* Record validator
\* ------------------------------------------------------------------------

MAX_RECORD_SIZE == 64 * 1024

SUPPORTED_COLLECTIONS ==
  {"forum.atgora.topic.post", "forum.atgora.topic.reply",
   "forum.atgora.interaction.reaction"}

\* Collections seen on the stream: the supported ones and two others.
Collections ==
  SUPPORTED_COLLECTIONS \cup {"app.bsky.feed.post", "forum.atgora.topic.Post"}

\* A raw record, as far as validateRecord can tell records apart:
\*   json   what JSON.stringify does with it: "text" (a string comes back),
\*          "undefined" (undefined comes back: the record is undefined),
\*          "throws" (a TypeError: a cycle or a BigInt inside);
\*   units  the length of that string in UTF-16 code units (.length);
\*   bytes  its length in bytes (UTF-8);
\*   shape  the collection whose lexicon schema accepts the record, if any.
Doc(json, units, bytes, shape) ==
  [json |-> json, units |-> units, bytes |-> bytes, shape |-> shape]

NoDoc == Doc("none", 0, 0, "none")

\* Serialized sizes: <<code units, bytes>>.
DocSizes ==
  {<<120, 120>>, <<MAX_RECORD_SIZE, MAX_RECORD_SIZE>>,
   <<MAX_RECORD_SIZE + 1, MAX_RECORD_SIZE + 1>>, <<70 * 1024, 70 * 1024>>,
   <<35 * 1024, 70 * 1024>>, <<MAX_RECORD_SIZE, 2 * MAX_RECORD_SIZE>>,
   <<MAX_RECORD_SIZE \div 2, MAX_RECORD_SIZE>>}

Docs ==
  {Doc("text", z[1], z[2], sh) :
     z \in DocSizes, sh \in SUPPORTED_COLLECTIONS \cup {"none"}}
    \cup {Doc("undefined", 0, 0, "none"), Doc("throws", 0, 0, "none")}

\* (SUPPORTED_COLLECTIONS as readonly string[]).includes(collection)
isSupportedCollection(collection) == collection \in SUPPORTED_COLLECTIONS

\* schemaMap[collection].safeParse(record).success
safeParse(collection, record) == record.shape = collection

\* What a call of validateRecord comes to: it throws or returns a
\* ValidationResult; checks lists the checks it ran, in order.
Threw(checks) ==
  [threw |-> TRUE, success |-> FALSE, error |-> <<>>, data |-> NoDoc,
   checks |-> checks]

Failure(error, checks) ==
  [threw |-> FALSE, success |-> FALSE, error |-> error, data |-> NoDoc,
   checks |-> checks]

Success(data, checks) ==
  [threw |-> FALSE, success |-> TRUE, error |-> <<>>, data |-> data,
   checks |-> checks]

NoValidation == Threw(<<>>)

\* serialized.length > MAX_RECORD_SIZE
exceedsMaxSize(record) == record.units > MAX_RECORD_SIZE

\* validateRecord(collection, record); an error message is the sequence of
\* the pieces of its template string.
validateRecord(collection, record) ==
  IF ~isSupportedCollection(collection)
  THEN Failure(<<"Unsupported collection: ", collection>>, <<"collection">>)
  ELSE IF record.json # "text"
  THEN Threw(<<"collection", "size">>)
  ELSE IF exceedsMaxSize(record)
  THEN Failure(<<"Record exceeds maximum size of ", "65536", " bytes">>,
               <<"collection", "size">>)
  ELSE IF ~safeParse(collection, record)
  THEN Failure(<<"Validation failed for ", collection>>,
               <<"collection", "size", "schema">>)
  ELSE Success(record, <<"collection", "size", "schema">>)

ValInputs ==
  {[pc |-> "call", collection |-> c, record |-> r, out |-> NoValidation] :
     c \in Collections, r \in Docs}

ValInit == valCall \in ValInputs

\* The call returns or throws.
ValidateReturns ==
  /\ valCall.pc = "call"
  /\ valCall' = [valCall EXCEPT
       !.pc = "returned",
       !.out = validateRecord(valCall.collection, valCall.record)]
  /\ UNCHANGED outsideValidator

\* The next record is validated.
ValidateCalled(input) ==
  /\ valCall.pc = "returned"
  /\ valCall' = input
  /\ UNCHANGED outsideValidator

ValNext ==
  \/ ValidateReturns
  \/ \E input \in ValInputs : ValidateCalled(input)

\* ------------------------------------------------------------------------
\* Record handler: events, rows, invocations
\* ------------------------------------------------------------------------

Consumers == {"k1"}

\* The invocations of handle that can be in flight: the consumer's, and one
\* more for a second delivery that does not wait for it.
Invocations == Consumers \cup {"k2"}

\* COLLECTION_MAP[collection]; undefined for a collection it does not list.
COLLECTION_MAP(collection) ==
  CASE collection = "forum.atgora.topic.post" -> "topic"
    [] collection = "forum.atgora.topic.reply" -> "reply"
    [] collection = "forum.atgora.interaction.reaction" -> "reaction"
    [] OTHER -> "undefined"

\* Collections on the stream: the supported ones and a foreign one.
EventCollections == SUPPORTED_COLLECTIONS \cup {"app.bsky.feed.post"}

EventActions == {"create", "update", "delete"}

EventDids == {PlcDid}

RecordKey == "3jzfcijpj2z2a"

\* An absent optional field (cid).
Undefined == "undefined"

\* record === undefined
NoPayload == Doc("undefined", 0, 0, "none")

\* Payloads: none, one JSON.stringify throws on, one of 64 KiB + 1 that
\* has the shape of a reply, and a small one of each collection's shape.
Payloads ==
  {NoPayload, Doc("throws", 0, 0, "none"),
   Doc("text", MAX_RECORD_SIZE + 1, MAX_RECORD_SIZE + 1, "forum.atgora.topic.reply")}
    \cup {Doc("text", 120, 120, c) : c \in SUPPORTED_COLLECTIONS}

Events ==
  [collection : EventCollections, action : EventActions, did : EventDids,
   rkey : {RecordKey}, record : Payloads,
   cid : {Undefined, "bafyreib2rxk3rh6kzwq"}, live : {TRUE}]

NoEvent ==
  [collection |-> "", action |-> "", did |-> <<>>, rkey |-> "",
   record |-> NoDoc, cid |-> Undefined, live |-> FALSE]

\* `at://${did}/${collection}/${rkey}`
AtUri(did, collection, rkey) == <<"at://", did, "/", collection, "/", rkey>>

uriOf(event) == AtUri(event.did, event.collection, event.rkey)

UrisOf(collection) == {AtUri(d, collection, RecordKey) : d \in EventDids}

\* cid ?? ''
cidOrEmpty(cid) == IF cid = Undefined THEN "" ELSE cid

\* A Date or null; at is in ms from the origin of the clock.
NoDate == [set |-> FALSE, at |-> 0]

DateAt(t) == [set |-> TRUE, at |-> t]

\* An account is new for 24 hours.
NEW_ACCOUNT_MS == 24 * 60 * 60 * 1000

\* Creation dates the Account-Age service resolves: 10 minutes, 2 hours,
\* 24 hours less 1 ms, and exactly 24 hours before the origin of the clock.
CreationDates ==
  {DateAt(-(10 * 60 * 1000)), DateAt(-(2 * 60 * 60 * 1000)),
   DateAt(1 - NEW_ACCOUNT_MS), DateAt(-NEW_ACCOUNT_MS)}

\* accountAgeService.determineTrustStatus(createdAt)
determineTrustStatus(createdAt) ==
  IF createdAt.set /\ DateNow - createdAt.at < NEW_ACCOUNT_MS
  THEN "new"
  ELSE "trusted"

\* A row of users, and the result of a select that finds none.
NoUser == [present |-> FALSE, accountCreatedAt |-> NoDate]

UserRow(accountCreatedAt) ==
  [present |-> TRUE, accountCreatedAt |-> accountCreatedAt]

\* A row of replies or reactions, as far as the handler reads it: its
\* rootUri or subjectUri.
NoRow == [present |-> FALSE, ref |-> ""]

Row(ref) == [present |-> TRUE, ref |-> ref]

RootUri == "at://did:plc:bob/forum.atgora.topic.post/3jzfroot"

SubjectUri == "at://did:plc:bob/forum.atgora.topic.post/3jzfsubject"

EmptyDb ==
  [users |-> [d \in EventDids |-> NoUser],
   replies |-> [u \in UrisOf("forum.atgora.topic.reply") |-> NoRow],
   reactions |-> [u \in UrisOf("forum.atgora.interaction.reaction") |-> NoRow]]

\* One call on a collaborator, as the invocation's trace keeps it.
Op(on, call, note) == [on |-> on, call |-> call, note |-> note]

\* An invocation of handle:
\*   pc         where it is suspended ("select": the compensating lookup,
\*              "users.select", "resolveCreationDate", "users.update",
\*              "users.insert", "indexer"), "done" once its promise is
\*              resolved, "rejected" once its promise is rejected;
\*   trust      trustStatus (line 62);
\*   row        what the select on users returned;
\*   createdAt  what resolveCreationDate returned;
\*   found      what the compensating lookup returned;
\*   ops        the calls made on collaborators, in order;
\*   sent       the calls made on indexers, with their parameters;
\*   failed     the calls that rejected or threw, each named by the pc it
\*              was awaited at, or by its name when it is synchronous;
\*   after      how the consumer's previous event ended.
\* failed and after are kept for the properties only; no step reads them.
IdleHandling ==
  [pc |-> "idle", event |-> NoEvent, trust |-> "trusted", row |-> NoUser,
   createdAt |-> NoDate, found |-> NoRow, ops |-> <<>>, sent |-> <<>>,
   failed |-> {}, after |-> "none"]

Called(inv, op) == [inv EXCEPT !.ops = Append(@, op)]

\* The call awaited at inv.pc rejected; the synchronous call `call` threw.
Rejected(inv) == [inv EXCEPT !.failed = @ \cup {inv.pc}]

ThrewIn(inv, call) == [inv EXCEPT !.failed = @ \cup {call}]

\* The promise handle returned resolves.
Resolved(inv) == [inv EXCEPT !.pc = "done"]

ERROR_HANDLING == Op("logger", "error", "Error handling record event")

ERROR_TRUST == Op("logger", "error", "Failed to upsert user with trust check")

\* The parameters of handleCreate and handleUpdate (lines 67-75), and of
\* handleDelete (refName: "rootUri", "subjectUri", or "" when none is
\* passed); a field a call does not pass is left empty.
params(inv) ==
  [uri |-> uriOf(inv.event), rkey |-> inv.event.rkey, did |-> inv.event.did,
   cid |-> cidOrEmpty(inv.event.cid), record |-> inv.event.record,
   live |-> inv.event.live, trustStatus |-> inv.trust,
   refName |-> "", ref |-> ""]

deleteParams(inv, refName, ref) ==
  [uri |-> uriOf(inv.event), rkey |-> inv.event.rkey, did |-> inv.event.did,
   cid |-> "", record |-> NoDoc, live |-> FALSE, trustStatus |-> "",
   refName |-> refName, ref |-> ref]

\* await this.indexers[indexerName][entry](p)
invoke(inv, indexerName, entry, p) ==
  [Called(inv, Op("indexers", entry, indexerName)) EXCEPT
     !.pc = "indexer",
     !.sent = Append(@, [indexer |-> indexerName, entry |-> entry, params |-> p])]

\* ------------------------------------------------------------------------
\* Record handler: handle, from one suspension to the next
\* ------------------------------------------------------------------------

\* The outer catch (lines 82-87).
catchHandleError_rethrow(inv) == [inv EXCEPT !.pc = "rejected"]

catchHandleError(inv) == Resolved(Called(inv, ERROR_HANDLING))

dispatchCreate_misrouted(inv, indexerName) ==
  IF indexerName \in {"topic", "reply", "reaction"}
  THEN invoke(inv, "topic", "handleCreate", params(inv))
  ELSE Resolved(inv)

dispatchCreate(inv, indexerName) ==
  IF indexerName \in {"topic", "reply", "reaction"}
  THEN invoke(inv, indexerName, "handleCreate", params(inv))
  ELSE Resolved(inv)

\* The update of a reaction falls through to handleCreate.
dispatchUpdate_reactionCreates(inv, indexerName) ==
  IF indexerName \in {"topic", "reply"}
  THEN invoke(inv, indexerName, "handleUpdate", params(inv))
  ELSE dispatchCreate(inv, indexerName)

\* Reactions have no update: the switch has no case for them.
dispatchUpdate(inv, indexerName) ==
  IF indexerName \in {"topic", "reply"}
  THEN invoke(inv, indexerName, "handleUpdate", params(inv))
  ELSE Resolved(inv)

\* await this.db.select(...).from(table).where(eq(table.uri, params.uri))
select(inv, table) ==
  [Called(inv, Op("db", "select", table)) EXCEPT !.pc = "select"]

\* handleDelete called at once, with an empty reference and no lookup.
dispatchDelete_noLookup(inv, indexerName) ==
  CASE indexerName = "topic" ->
         invoke(inv, "topic", "handleDelete", deleteParams(inv, "", ""))
    [] indexerName = "reply" ->
         invoke(inv, "reply", "handleDelete", deleteParams(inv, "rootUri", ""))
    [] indexerName = "reaction" ->
         invoke(inv, "reaction", "handleDelete", deleteParams(inv, "subjectUri", ""))
    [] OTHER -> Resolved(inv)

dispatchDelete(inv, indexerName) ==
  CASE indexerName = "topic" ->
         invoke(inv, "topic", "handleDelete", deleteParams(inv, "", ""))
    [] indexerName = "reply" -> select(inv, "replies")
    [] indexerName = "reaction" -> select(inv, "reactions")
    [] OTHER -> Resolved(inv)

NotFoundNote(indexerName) ==
  IF indexerName = "reply"
  THEN "Reply not found in DB for delete, count decrement will be skipped"
  ELSE "Reaction not found in DB for delete, count decrement will be skipped"

\* The reference is passed to one handleDelete only: an invocation that
\* finds another one already calling handleDelete for the uri passes none.
afterLookup_oncePerRow(inv, rows) ==
  LET indexerName == COLLECTION_MAP(inv.event.collection)
      refName == IF indexerName = "reply" THEN "rootUri" ELSE "subjectUri"
      taken == \E g \in DOMAIN handling :
                 /\ handling[g] # inv
                 /\ handling[g].event = inv.event
                 /\ handling[g].sent # <<>>
      looked == [inv EXCEPT !.found = rows]
  IN  invoke(looked, indexerName, "handleDelete",
             deleteParams(looked, refName,
                          IF rows.present /\ ~taken THEN rows.ref ELSE ""))

\* The reference is passed whether or not the lookup found the row.
afterLookup_assumesRow(inv, rows) ==
  LET indexerName == COLLECTION_MAP(inv.event.collection)
      refName == IF indexerName = "reply" THEN "rootUri" ELSE "subjectUri"
      looked == [inv EXCEPT !.found = rows]
  IN  invoke(looked, indexerName, "handleDelete",
             deleteParams(looked, refName,
                          IF indexerName = "reply" THEN RootUri ELSE SubjectUri))

\* rows[0].rootUri without the ?. : a TypeError when no row came back.
afterLookup_throwOnMissing(inv, rows) ==
  LET indexerName == COLLECTION_MAP(inv.event.collection)
      refName == IF indexerName = "reply" THEN "rootUri" ELSE "subjectUri"
      looked == [inv EXCEPT !.found = rows]
  IN  IF ~rows.present
      THEN catchHandleError(looked)
      ELSE invoke(looked, indexerName, "handleDelete",
                  deleteParams(looked, refName, rows.ref))

\* dispatchDelete once the compensating lookup has returned rows (the row
\* found, or NoRow): lines 162-175 and 185-198.
afterLookup(inv, rows) ==
  LET indexerName == COLLECTION_MAP(inv.event.collection)
      refName == IF indexerName = "reply" THEN "rootUri" ELSE "subjectUri"
      ref == IF rows.present THEN rows.ref ELSE ""
      looked == [inv EXCEPT !.found = rows]
      logged == IF ref = ""
                THEN Called(looked, Op("logger", "debug", NotFoundNote(indexerName)))
                ELSE looked
  IN  invoke(logged, indexerName, "handleDelete",
             deleteParams(logged, refName, ref))

\* Lines 64-81 once upsertUserWithTrustCheck has returned status.
withTrustStatus(inv, status) ==
  dispatchCreate([inv EXCEPT !.trust = status],
                 COLLECTION_MAP(inv.event.collection))

\* The catch of upsertUserWithTrustCheck (lines 264-267).
catchTrustCheckError_rethrow(inv) == catchHandleError(inv)

catchTrustCheckError(inv) == withTrustStatus(Called(inv, ERROR_TRUST), "trusted")

\* return this.accountAgeService.determineTrustStatus(createdAt), which
\* returns (returns = TRUE) or throws; info: the branch logs a new account.
classify(inv, createdAt, returns, info) ==
  LET asked == Called(inv, Op("accountAgeService", "determineTrustStatus", ""))
      status == determineTrustStatus(createdAt)
  IN  IF ~returns
      THEN catchTrustCheckError(ThrewIn(asked, "determineTrustStatus"))
      ELSE IF info /\ status = "new"
      THEN withTrustStatus(
             Called(asked, Op("logger", "info",
               "New account detected (< 24h old), indexing with trust_status: new")),
             status)
      ELSE withTrustStatus(asked, status)

\* await this.accountAgeService.resolveCreationDate(did)
resolveCreationDate(inv) ==
  [Called(inv, Op("accountAgeService", "resolveCreationDate", "")) EXCEPT
     !.pc = "resolveCreationDate"]

afterUsersSelect_ignoreStored(inv, row, returns) ==
  IF row.present /\ row.accountCreatedAt.set
  THEN withTrustStatus([inv EXCEPT !.row = row], "trusted")
  ELSE resolveCreationDate([inv EXCEPT !.row = row])

\* upsertUserWithTrustCheck once the select on users has returned
\* (lines 228-243).
afterUsersSelect(inv, row, returns) ==
  IF row.present /\ row.accountCreatedAt.set
  THEN classify([inv EXCEPT !.row = row], row.accountCreatedAt, returns, FALSE)
  ELSE resolveCreationDate([inv EXCEPT !.row = row])

\* upsertUserWithTrustCheck once resolveCreationDate has returned
\* (lines 236-239 for a legacy row, 245-252 for a new user).
afterResolveCreationDate(inv, createdAt, returns) ==
  LET resolved == [inv EXCEPT !.createdAt = createdAt]
  IN  IF inv.row.present
      THEN IF createdAt.set
           THEN [Called(resolved, Op("db", "update", "users")) EXCEPT
                   !.pc = "users.update"]
           ELSE classify(resolved, createdAt, returns, FALSE)
      ELSE [Called(resolved, Op("db", "insert", "users")) EXCEPT
              !.pc = "users.insert"]

\* upsertUserWithTrustCheck once its update or insert has returned
\* (lines 239 and 254-263).
afterUsersWrite(inv, returns) ==
  classify(inv, inv.createdAt, returns, inv.pc = "users.insert")

\* Trust is resolved on create only (line 63).
resolvesTrust_always(action) == action \in {"create", "update"}

resolvesTrust(action) == action = "create"

afterValidation_ignored(inv, validation) ==
  IF validation.threw
  THEN catchHandleError(ThrewIn(inv, "validateRecord"))
  ELSE IF resolvesTrust(inv.event.action)
  THEN [Called(inv, Op("db", "select", "users")) EXCEPT !.pc = "users.select"]
  ELSE dispatchUpdate(inv, COLLECTION_MAP(inv.event.collection))

\* handle once validateRecord has returned or thrown (lines 53-81).
afterValidation(inv, validation) ==
  IF validation.threw
  THEN catchHandleError(ThrewIn(inv, "validateRecord"))
  ELSE IF ~validation.success
  THEN Resolved(Called(inv, Op("logger", "debug", "Record validation failed")))
  ELSE IF resolvesTrust(inv.event.action)
  THEN [Called(inv, Op("db", "select", "users")) EXCEPT !.pc = "users.select"]
  ELSE dispatchUpdate(inv, COLLECTION_MAP(inv.event.collection))

validated(inv) ==
  afterValidation(Called(inv, Op("validation", "validateRecord", inv.event.collection)),
                  validateRecord(inv.event.collection, inv.event.record))

handle_noGate(inv) ==
  IF inv.event.action = "delete"
  THEN dispatchDelete(inv, COLLECTION_MAP(inv.event.collection))
  ELSE IF inv.event.record = NoPayload
  THEN Resolved(Called(inv, Op("logger", "warn", "Record event missing record data")))
  ELSE validated(inv)

handle_noPayloadCheck(inv) ==
  IF ~isSupportedCollection(inv.event.collection)
  THEN Resolved(inv)
  ELSE IF inv.event.action = "delete"
  THEN dispatchDelete(inv, COLLECTION_MAP(inv.event.collection))
  ELSE validated(inv)

\* handle(event) up to its first suspension (lines 30-52).
handle(inv) ==
  IF ~isSupportedCollection(inv.event.collection)
  THEN Resolved(inv)
  ELSE IF inv.event.action = "delete"
  THEN dispatchDelete(inv, COLLECTION_MAP(inv.event.collection))
  ELSE IF inv.event.record = NoPayload
  THEN Resolved(Called(inv, Op("logger", "warn", "Record event missing record data")))
  ELSE validated(inv)

\* ------------------------------------------------------------------------
\* Record handler: actions
\* ------------------------------------------------------------------------

\* How an invocation ended, for the next one's `after`: "first" (there was
\* none), "failed", the event's collection when it was a delete whose
\* handleDelete was passed a reference and returned, or else "handled".
HowEnded(inv) ==
  IF inv.pc = "idle" THEN "first"
  ELSE IF inv.ops # <<>> /\ inv.ops[Len(inv.ops)] = ERROR_HANDLING THEN "failed"
  ELSE IF /\ inv.event.action = "delete"
          /\ Len(inv.sent) = 1
          /\ inv.sent[1].params.ref # ""
  THEN inv.event.collection
  ELSE "handled"

\* .insert(users).values({did, handle: did, accountCreatedAt}).onConflictDoNothing()
usersInsert(users, did, createdAt) ==
  IF users[did].present THEN users ELSE [users EXCEPT ![did] = UserRow(createdAt)]

\* .update(users).set({accountCreatedAt}).where(eq(users.did, did))
usersUpdate(users, did, createdAt) ==
  IF users[did].present THEN [users EXCEPT ![did] = UserRow(createdAt)] ELSE users

\* What an indexer's entry point does to the tables the handler reads:
\* the reply and reaction indexers insert the row on create and remove it
\* on delete.
indexerWrites(d, call) ==
  CASE call.indexer = "reply" /\ call.entry = "handleCreate" ->
         [d EXCEPT !.replies[call.params.uri] = Row(RootUri)]
    [] call.indexer = "reply" /\ call.entry = "handleDelete" ->
         [d EXCEPT !.replies[call.params.uri] = NoRow]
    [] call.indexer = "reaction" /\ call.entry = "handleCreate" ->
         [d EXCEPT !.reactions[call.params.uri] = Row(SubjectUri)]
    [] call.indexer = "reaction" /\ call.entry = "handleDelete" ->
         [d EXCEPT !.reactions[call.params.uri] = NoRow]
    [] OTHER -> d

DispatcherInit ==
  /\ db = EmptyDb
  /\ handling = [h \in Invocations |-> IdleHandling]

\* The consumer calls handle(event) once its previous call has settled.
Handle(h, event) ==
  /\ handling[h].pc \in {"idle", "done"}
  /\ handling' = [handling EXCEPT ![h] =
       handle([IdleHandling EXCEPT
                 !.pc = "running", !.event = event,
                 !.after = HowEnded(handling[h])])]
  /\ UNCHANGED db
  /\ UNCHANGED outsideDispatcher

\* The compensating lookup returns the row of the event's uri, or rejects.
LookupEnds(h, ok) ==
  /\ handling[h].pc = "select"
  /\ LET inv == handling[h]
         table == IF COLLECTION_MAP(inv.event.collection) = "reply"
                  THEN db.replies ELSE db.reactions
     IN  handling' = [handling EXCEPT ![h] =
           IF ok THEN afterLookup(inv, table[uriOf(inv.event)])
           ELSE catchHandleError(Rejected(inv))]
  /\ UNCHANGED db
  /\ UNCHANGED outsideDispatcher

\* The select on users returns the row of the event's did, or rejects.
UsersSelectEnds(h, ok, returns) ==
  /\ handling[h].pc = "users.select"
  /\ LET inv == handling[h]
     IN  handling' = [handling EXCEPT ![h] =
           IF ok THEN afterUsersSelect(inv, db.users[inv.event.did], returns)
           ELSE catchTrustCheckError(Rejected(inv))]
  /\ UNCHANGED db
  /\ UNCHANGED outsideDispatcher

\* resolveCreationDate returns a date or null, or rejects.
ResolveCreationDateEnds(h, ok, createdAt, returns) ==
  /\ handling[h].pc = "resolveCreationDate"
  /\ LET inv == handling[h]
     IN  handling' = [handling EXCEPT ![h] =
           IF ok THEN afterResolveCreationDate(inv, createdAt, returns)
           ELSE catchTrustCheckError(Rejected(inv))]
  /\ UNCHANGED db
  /\ UNCHANGED outsideDispatcher

\* The update or insert on users is done, or rejects having written nothing.
UsersWriteEnds(h, ok, returns) ==
  /\ handling[h].pc \in {"users.update", "users.insert"}
  /\ LET inv == handling[h]
         written == IF inv.pc = "users.insert"
                    THEN usersInsert(db.users, inv.event.did, inv.createdAt)
                    ELSE usersUpdate(db.users, inv.event.did, inv.createdAt)
     IN  /\ handling' = [handling EXCEPT ![h] =
              IF ok THEN afterUsersWrite(inv, returns)
              ELSE catchTrustCheckError(Rejected(inv))]
         /\ db' = IF ok THEN [db EXCEPT !.users = written] ELSE db
  /\ UNCHANGED outsideDispatcher

\* The indexer's entry point returns, having done its writes, or rejects
\* having written nothing.
IndexerEnds(h, ok) ==
  /\ handling[h].pc = "indexer"
  /\ LET inv == handling[h]
         call == inv.sent[Len(inv.sent)]
     IN  /\ handling' = [handling EXCEPT ![h] =
              IF ok THEN Resolved(inv) ELSE catchHandleError(Rejected(inv))]
         /\ db' = IF ok THEN indexerWrites(db, call) ELSE db
  /\ UNCHANGED outsideDispatcher

DispatcherNext ==
  \E h \in Consumers :
    \/ \E event \in Events : Handle(h, event)
    \/ \E ok \in BOOLEAN : LookupEnds(h, ok)
    \/ \E ok \in BOOLEAN, returns \in BOOLEAN : UsersSelectEnds(h, ok, returns)
    \/ \E ok \in BOOLEAN, createdAt \in CreationDates \cup {NoDate},
          returns \in BOOLEAN :
         ResolveCreationDateEnds(h, ok, createdAt, returns)
    \/ \E ok \in BOOLEAN, returns \in BOOLEAN : UsersWriteEnds(h, ok, returns)
    \/ \E ok \in BOOLEAN : IndexerEnds(h, ok)

\* A delete event as the stream carries it: no payload, no cid.
DeleteEvents ==
  {e \in Events : e.action = "delete" /\ e.record = NoPayload /\ e.cid = Undefined
                     /\ e.collection \in SUPPORTED_COLLECTIONS}

\* The store once a reply and a reaction of every identity are indexed.
IndexedDb ==
  [EmptyDb EXCEPT
     !.replies = [u \in UrisOf("forum.atgora.topic.reply") |-> Row(RootUri)],
     !.reactions = [u \in UrisOf("forum.atgora.interaction.reaction") |->
                      Row(SubjectUri)]]

\* Delete events delivered to invocations that do not wait for each other.
DeleteRaceNext ==
  \E h \in Invocations :
    \/ \E event \in DeleteEvents : Handle(h, event)
    \/ \E ok \in BOOLEAN : LookupEnds(h, ok)
    \/ \E ok \in BOOLEAN : IndexerEnds(h, ok)

\* ------------------------------------------------------------------------
\* Auth hooks: requireAuth, optionalAuth, requireAdmin
\* ------------------------------------------------------------------------

Hooks == {"requireAuth", "optionalAuth", "requireAdmin"}

\* The Authorization header: absent (<<>>), or the pair of its first seven
\* characters and the rest.
Headers ==
  {<<>>, <<"Basic d", "XNlcjpwYXNz">>, <<"bearer ", "aaaaaaaa">>,
   <<"Bearer ", "">>, <<"Bearer ", "aaaaaaaa">>}

\* extractBearerToken(request)
extractBearerToken(header) ==
  IF header = <<>> \/ header[1] # "Bearer "
  THEN Undefined
  ELSE IF header[2] = "" THEN Undefined ELSE header[2]

\* A Session as far as the hooks read it, and undefined.
NoSession == [did |-> <<>>, handle |-> "", sid |-> ""]

Sessions ==
  {[did |-> PlcDid, handle |-> "alice.bsky.social", sid |-> "ssssssss"],
   [did |-> WebDid, handle |-> "example.com", sid |-> "tttttttt"]}

\* Roles of a users row; "none": no row for the did.
Roles == {"none", "user", "moderator", "admin"}

\* A request in a hook:
\*   pc       "session" (validateAccessToken awaited), "verify"
\*            (didVerifier.verify awaited), "select" (the select on users
\*            awaited), "done" (the hook's promise resolved), "rejected";
\*   user     request.user (NoSession: undefined);
\*   sent     the responses sent, in order;
\*   asked    the did verify was called with, result what it returned,
\*            and read how the verifier came by it;
\*   threw    the awaited calls that rejected;
\*   queries  the selects on users.
\*   role     the role of the row the select returned.
\* asked, result, read, threw, queries and role are kept for the
\* properties only.
IdleAuth ==
  [pc |-> "idle", hook |-> "requireAuth", header |-> <<>>,
   session |-> NoSession, user |-> NoSession, sent |-> <<>>,
   asked |-> <<>>, result |-> NoResult, read |-> "none", threw |-> {},
   queries |-> 0, role |-> "none"]

\* await reply.status(status).send({ error })
Send(a, status, error) ==
  [a EXCEPT !.sent = Append(@, [status |-> status, error |-> error])]

\* requireAdmin once its select on users has returned the row of role
\* (lines 45-49).
afterRoleSelect_anyRow(a, role) ==
  IF role = "none"
  THEN [Send([a EXCEPT !.role = role], 403, "Admin access required") EXCEPT !.pc = "done"]
  ELSE [a EXCEPT !.pc = "done", !.role = role]

afterRoleSelect(a, role) ==
  IF role # "admin"
  THEN [Send([a EXCEPT !.role = role], 403, "Admin access required") EXCEPT !.pc = "done"]
  ELSE [a EXCEPT !.pc = "done", !.role = role]

\* requireAdmin once requireAuth has returned (lines 28-43).
afterRequireAuth(a) ==
  IF a.sent # <<>>
  THEN [a EXCEPT !.pc = "done"]
  ELSE IF a.user = NoSession
  THEN [Send(a, 403, "Admin access required") EXCEPT !.pc = "done"]
  ELSE [a EXCEPT !.pc = "select", !.queries = @ + 1]

\* requireAuth or optionalAuth returns: to Fastify, or to requireAdmin.
hookReturns(a) ==
  IF a.hook = "requireAdmin" THEN afterRequireAuth(a) ELSE [a EXCEPT !.pc = "done"]

\* isResolutionFailure(result)
isResolutionFailure_anyInactive(result) == ~result.active

isResolutionFailure(result) ==
  ~result.active /\ result.reason = <<"DID document resolution failed">>

\* The catch of requireAuth (lines 117-120) and of optionalAuth (155-157).
catchAuthError_optionalSends(a) ==
  hookReturns(Send(a, 502, "Service temporarily unavailable"))

catchAuthError(a) ==
  IF a.hook = "optionalAuth"
  THEN hookReturns(a)
  ELSE hookReturns(Send(a, 502, "Service temporarily unavailable"))

\* Once didVerifier.verify has returned didResult (lines 99-116, 142-154).
afterVerify_userBeforeCheck(a, didResult) ==
  LET set == [a EXCEPT !.user = [did |-> a.session.did, handle |-> a.session.handle,
                                 sid |-> a.session.sid]]
  IN  IF didResult.active
      THEN hookReturns(set)
      ELSE IF a.hook = "optionalAuth"
      THEN hookReturns(set)
      ELSE IF isResolutionFailure(didResult)
      THEN hookReturns(Send(set, 502, "Service temporarily unavailable"))
      ELSE hookReturns(Send(set, 401, "DID is no longer active"))

afterVerify(a, didResult) ==
  IF didResult.active
  THEN hookReturns([a EXCEPT !.user = [did |-> a.session.did, handle |-> a.session.handle,
                                   sid |-> a.session.sid]])
  ELSE IF a.hook = "optionalAuth"
  THEN hookReturns(a)
  ELSE IF isResolutionFailure(didResult)
  THEN hookReturns(Send(a, 502, "Service temporarily unavailable"))
  ELSE hookReturns(Send(a, 401, "DID is no longer active"))

\* Once validateAccessToken has returned session (lines 92-98, 136-141).
afterSession(a, session) ==
  IF session = NoSession
  THEN IF a.hook = "optionalAuth"
       THEN hookReturns(a)
       ELSE hookReturns(Send(a, 401, "Invalid or expired token"))
  ELSE [a EXCEPT !.pc = "verify", !.session = session]

\* The hook up to its first await (lines 84-91, 129-135).
startAuth(a) ==
  IF extractBearerToken(a.header) = Undefined
  THEN IF a.hook = "optionalAuth"
       THEN hookReturns(a)
       ELSE hookReturns(Send(a, 401, "Authentication required"))
  ELSE [a EXCEPT !.pc = "session"]

AuthInit == auth = [c \in Callers |-> IdleAuth]

\* Fastify runs hook on a request that carries header.
AuthBegins(c, hook, header) ==
  /\ auth[c].pc \in {"idle", "done", "rejected"}
  /\ calls[c].pc = "idle"
  /\ auth' = [auth EXCEPT ![c] = startAuth([IdleAuth EXCEPT !.hook = hook,
                                                           !.header = header])]
  /\ UNCHANGED verifierVars
  /\ UNCHANGED outsideAuth

\* sessionService.validateAccessToken(token) returns session (NoSession:
\* undefined), or rejects (ok = FALSE); with a session the hook goes on to
\* call didVerifier.verify(session.did), which runs to its first await.
SessionEnds(c, ok, session) ==
  LET next == IF ok
              THEN afterSession(auth[c], session)
              ELSE catchAuthError([auth[c] EXCEPT !.threw = @ \cup {"session"}])
  IN  /\ auth[c].pc = "session"
      /\ auth' = [auth EXCEPT ![c] = next]
      /\ IF next.pc = "verify"
         THEN VerifyStep(c, verifyEntry(session.did))
         ELSE UNCHANGED <<calls, tasks>>
      /\ UNCHANGED <<now, store>>
      /\ UNCHANGED outsideAuth

\* The promise of didVerifier.verify resolves; the hook takes its result.
VerifyReturns(c) ==
  /\ auth[c].pc = "verify"
  /\ calls[c].pc = "done"
  /\ auth' = [auth EXCEPT ![c] =
                afterVerify([auth[c] EXCEPT !.asked = calls[c].did,
                                            !.result = calls[c].result,
                                            !.read = calls[c].read],
                            calls[c].result)]
  /\ calls' = [calls EXCEPT ![c] = IdleCall]
  /\ UNCHANGED <<now, store, tasks>>
  /\ UNCHANGED outsideAuth

\* The promise of didVerifier.verify rejects: the hooks take any
\* DidDocumentVerifier, and one may reject where this one does not.
VerifyRejects(c) ==
  /\ auth[c].pc = "verify"
  /\ calls[c].pc \in {"get", "fetch"}
  /\ auth' = [auth EXCEPT ![c] =
                catchAuthError([auth[c] EXCEPT !.threw = @ \cup {"verify"}])]
  /\ calls' = [calls EXCEPT ![c] = IdleCall]
  /\ UNCHANGED <<now, store, tasks>>
  /\ UNCHANGED outsideAuth

\* The select on users of requireAdmin returns the row of role, or rejects
\* (ok = FALSE): nothing catches it, the hook's promise rejects.
RoleSelectEnds(c, ok, role) ==
  /\ auth[c].pc = "select"
  /\ auth' = [auth EXCEPT ![c] =
                IF ok
                THEN afterRoleSelect(auth[c], role)
                ELSE [auth[c] EXCEPT !.pc = "rejected", !.threw = @ \cup {"select"}]]
  /\ UNCHANGED verifierVars
  /\ UNCHANGED outsideAuth

\* The hooks with the verifier they call: verify is entered from a hook
\* only, and its promise is taken by the hook.
AuthNext ==
  \/ \E c \in Callers, k \in Hooks, h \in Headers : AuthBegins(c, k, h)
  \/ \E c \in Callers, ok \in BOOLEAN, s \in Sessions \cup {NoSession} :
       SessionEnds(c, ok, s)
  \/ \E c \in Callers : VerifyReturns(c)
  \/ \E c \in Callers : VerifyRejects(c)
  \/ \E c \in Callers, ok \in BOOLEAN, r \in Roles : RoleSelectEnds(c, ok, r)
  \/ \E c \in Callers : CacheGetResolves(c)
  \/ \E c \in Callers : CacheGetRejects(c)
  \/ \E c \in Callers, o \in Outcomes : ResolveEnds(c, o)
  \/ \E t \in BagToSet(tasks), o \in Outcomes : RefreshResolveEnds(t, o)
  \/ \E t \in BagToSet(tasks) : CacheSetResolves(t)
  \/ \E t \in BagToSet(tasks) : CacheSetRejects(t)
  \/ Tick

\* ------------------------------------------------------------------------
\* Setup service: initialize
\* ------------------------------------------------------------------------

Initializers == {"u1", "u2"}

DEFAULT_COMMUNITY_NAME == "ATgora Community"

\* The optional communityName argument: left out, or given.
CommunityNames == {Undefined, "Custom Name"}

\* The row "default" of community_settings; NoSettings: no such row.
NoSettings ==
  [present |-> FALSE, initialized |-> FALSE, adminDid |-> <<>>,
   communityName |-> ""]

SettingsRow(initialized, adminDid, communityName) ==
  [present |-> TRUE, initialized |-> initialized, adminDid |-> adminDid,
   communityName |-> communityName]

\* An InitializeResult, and none yet.
NoInitializeResult ==
  [alreadyInitialized |-> FALSE, initialized |-> FALSE, adminDid |-> <<>>,
   communityName |-> ""]

AlreadyInitialized == [NoInitializeResult EXCEPT !.alreadyInitialized = TRUE]

Initialized(did, communityName) ==
  [alreadyInitialized |-> FALSE, initialized |-> TRUE, adminDid |-> did,
   communityName |-> communityName]

\* An invocation of initialize(did, communityName):
\*   pc        "select", "update", "insert" (the statement awaited), "done"
\*             (resolved with result), "rejected";
\*   existing  rows[0] of the select;
\*   writes    the updates and inserts it has issued (kept for the
\*             properties only).
IdleSetup ==
  [pc |-> "idle", did |-> <<>>, communityName |-> Undefined,
   existing |-> NoSettings, finalName |-> "", result |-> NoInitializeResult,
   writes |-> <<>>]

\* communityName ?? existing?.communityName ?? DEFAULT_COMMUNITY_NAME
finalNameOf(communityName, existing) ==
  IF communityName # Undefined
  THEN communityName
  ELSE IF existing.present THEN existing.communityName ELSE DEFAULT_COMMUNITY_NAME

afterExistingSelect_noConflict(inv, existing) ==
  LET named == [inv EXCEPT !.existing = existing,
                           !.finalName = finalNameOf(inv.communityName, existing)]
  IN  IF existing.present
      THEN [named EXCEPT !.pc = "update", !.writes = Append(@, "update")]
      ELSE [named EXCEPT !.pc = "insert", !.writes = Append(@, "insert")]

\* initialize once its select has returned existing (lines 215-251).
afterExistingSelect(inv, existing) ==
  LET named == [inv EXCEPT !.existing = existing,
                           !.finalName = finalNameOf(inv.communityName, existing)]
  IN  IF existing.present /\ existing.initialized
      THEN [inv EXCEPT !.pc = "done", !.existing = existing,
                       !.result = AlreadyInitialized]
      ELSE IF existing.present
      THEN [named EXCEPT !.pc = "update", !.writes = Append(@, "update")]
      ELSE [named EXCEPT !.pc = "insert", !.writes = Append(@, "insert")]

\* initialize once its update or insert has returned (lines 234-243, 256-265).
afterSettingsWrite(inv) ==
  [inv EXCEPT !.pc = "done", !.result = Initialized(inv.did, inv.finalName)]

\* The catch of initialize (lines 270-273): logged and thrown again.
catchInitializeError(inv) == [inv EXCEPT !.pc = "rejected"]

SetupInit ==
  /\ settings \in {NoSettings, SettingsRow(FALSE, <<>>, "Existing Name")}
  /\ setup = [u \in Initializers |-> IdleSetup]

SetupAtRest ==
  /\ settings = NoSettings
  /\ setup = [u \in Initializers |-> IdleSetup]

\* The route calls initialize(did, communityName) for user u.
Initialize(u, did, communityName) ==
  /\ setup[u].pc \in {"idle", "done", "rejected"}
  /\ setup' = [setup EXCEPT ![u] = [IdleSetup EXCEPT !.pc = "select", !.did = did,
                                                     !.communityName = communityName]]
  /\ UNCHANGED settings
  /\ UNCHANGED outsideSetup

\* The select on community_settings returns the row as it is, or rejects.
ExistingSelectEnds(u, ok) ==
  /\ setup[u].pc = "select"
  /\ setup' = [setup EXCEPT ![u] = IF ok
                                   THEN afterExistingSelect(setup[u], settings)
                                   ELSE catchInitializeError(setup[u])]
  /\ UNCHANGED settings
  /\ UNCHANGED outsideSetup

\* The update takes effect on the row where id = "default" and returns, or
\* rejects.
SettingsUpdateEnds(u, ok) ==
  /\ setup[u].pc = "update"
  /\ settings' = IF ok /\ settings.present
                 THEN SettingsRow(TRUE, setup[u].did, setup[u].finalName)
                 ELSE settings
  /\ setup' = [setup EXCEPT ![u] = IF ok
                                   THEN afterSettingsWrite(setup[u])
                                   ELSE catchInitializeError(setup[u])]
  /\ UNCHANGED outsideSetup

\* The insert of the row "default" takes effect and returns, or rejects; it
\* rejects when the row is there already (id is taken to be the key).
SettingsInsertEnds(u, ok) ==
  /\ setup[u].pc = "insert"
  /\ ok => ~settings.present
  /\ settings' = IF ok
                 THEN SettingsRow(TRUE, setup[u].did, setup[u].finalName)
                 ELSE settings
  /\ setup' = [setup EXCEPT ![u] = IF ok
                                   THEN afterSettingsWrite(setup[u])
                                   ELSE catchInitializeError(setup[u])]
  /\ UNCHANGED outsideSetup

\* No invocation of initialize is in flight.
NoneInFlight == \A u \in Initializers : setup[u].pc \in {"idle", "done", "rejected"}

\* Calls of initialize that do not wait for each other.
SetupRaceNext ==
  \/ \E u \in Initializers, d \in {PlcDid, WebDid}, n \in CommunityNames :
       Initialize(u, d, n)
  \/ \E u \in Initializers, ok \in BOOLEAN : ExistingSelectEnds(u, ok)
  \/ \E u \in Initializers, ok \in BOOLEAN : SettingsUpdateEnds(u, ok)
  \/ \E u \in Initializers, ok \in BOOLEAN : SettingsInsertEnds(u, ok)

\* Calls of initialize one after the other.
SetupNext ==
  \/ \E u \in Initializers, d \in {PlcDid, WebDid}, n \in CommunityNames :
       NoneInFlight /\ Initialize(u, d, n)
  \/ \E u \in Initializers, ok \in BOOLEAN : ExistingSelectEnds(u, ok)
  \/ \E u \in Initializers, ok \in BOOLEAN : SettingsUpdateEnds(u, ok)
  \/ \E u \in Initializers, ok \in BOOLEAN : SettingsInsertEnds(u, ok)

\* ------------------------------------------------------------------------
\* Specifications
\* ------------------------------------------------------------------------

\* The verifier under concurrent callers, detached promises and time.
ClampAtRest == [pc |-> "returned", clientCreatedAt |-> 0, now |-> 0, returned |-> 0]

ValAtRest ==
  [pc |-> "returned", collection |-> "forum.atgora.topic.post",
   record |-> NoDoc, out |-> NoValidation]

VerifierAtRest ==
  /\ now = 0
  /\ store = [k \in Keys |-> NoValue]
  /\ calls = [c \in Callers |-> IdleCall]
  /\ tasks = EmptyBag

Init ==
  /\ VerifierInit
  /\ clampCall = ClampAtRest
  /\ valCall = ValAtRest
  /\ DispatcherInit
  /\ AuthInit
  /\ SetupAtRest

Spec == Init /\ [][VerifierNext]_vars

\* clampCreatedAt applied to client times around several instants.
InitClamp ==
  /\ ClampInit
  /\ VerifierAtRest
  /\ valCall = ValAtRest
  /\ DispatcherInit
  /\ AuthInit
  /\ SetupAtRest

\* The identity is revoked: verify is called for it again and again, every
\* call, every detached promise and the clock go on.
InitRevoked ==
  /\ RevokedInit
  /\ clampCall = ClampAtRest
  /\ valCall = ValAtRest
  /\ DispatcherInit
  /\ AuthInit
  /\ SetupAtRest

SpecRevoked ==
  /\ InitRevoked
  /\ [][RevokedNext]_vars
  /\ WF_vars(RevokedCalls)
  /\ WF_vars(RevokedTasks)
  /\ WF_vars(Tick)

SpecClamp == InitClamp /\ [][ClampNext]_vars

\* validateRecord applied to records of every collection, size and shape.
InitValidator ==
  /\ ValInit
  /\ VerifierAtRest
  /\ clampCall = ClampAtRest
  /\ DispatcherInit
  /\ AuthInit
  /\ SetupAtRest

SpecValidator == InitValidator /\ [][ValNext]_vars

\* The record handler on a stream of events, one at a time, whatever the
\* local store, the Account-Age service and the indexers answer.
InitDispatcher ==
  /\ DispatcherInit
  /\ VerifierAtRest
  /\ clampCall = ClampAtRest
  /\ valCall = ValAtRest
  /\ AuthInit
  /\ SetupAtRest

SpecDispatcher == InitDispatcher /\ [][DispatcherNext]_vars

\* Delete events handled by two invocations at once, over a store that
\* holds the rows they are about.
InitDeleteRace ==
  /\ db = IndexedDb
  /\ handling = [h \in Invocations |-> IdleHandling]
  /\ VerifierAtRest
  /\ clampCall = ClampAtRest
  /\ valCall = ValAtRest
  /\ AuthInit
  /\ SetupAtRest

SpecDeleteRace == InitDeleteRace /\ [][DeleteRaceNext]_vars

\* The auth hooks on one request after another, over the verifier with its
\* cache empty, whatever the session service, the PLC directory, the cache
\* and the select on users answer.
InitAuth ==
  /\ AuthInit
  /\ VerifierAtRest
  /\ clampCall = ClampAtRest
  /\ valCall = ValAtRest
  /\ DispatcherInit
  /\ SetupAtRest

SpecAuth == InitAuth /\ [][AuthNext]_vars

\* initialize called by one user after another, on a community with no
\* settings row or with one not yet initialized, whatever the store answers.
InitSetup ==
  /\ SetupInit
  /\ VerifierAtRest
  /\ clampCall = ClampAtRest
  /\ valCall = ValAtRest
  /\ DispatcherInit
  /\ AuthInit

SpecSetup == InitSetup /\ [][SetupNext]_vars

\* initialize called by two users at once.
SpecSetupRace == InitSetup /\ [][SetupRaceNext]_vars

\* ------------------------------------------------------------------------
\* Verifier: properties
\* ------------------------------------------------------------------------

\* The two shapes of a DidVerificationResult.
TwoShapes(result) ==
  \/ result.active /\ result.reason = <<>>
  \/ ~result.active /\ Len(result.reason) = 1

\* The call read no usable entry: a miss, a failed read, an unparsable value.
Cold(call) == call.read \in {"miss", "error", "unparsable"}

\* The request failed: no response, or a status that is neither a success
\* nor 410 nor 404.
FailedOutcome(o) ==
  \/ o.kind \in {"network error", "timeout"}
  \/ o.kind = "response" /\ ~(o.status \in 200..299) /\ o.status \notin {404, 410}

\* A step in which the cache.get of caller c resolves.
GetResolved(c) ==
  /\ calls[c].pc = "get"
  /\ calls'[c].pc # "get"
  /\ calls'[c].read # "error"

\* The entry that cache.get of caller c finds, and its age.
Found(c) == cacheGet(CacheKey(calls[c].did))

FoundEntry(c) == Found(c).raw = "json"

FoundAge(c) == DateNow - Found(c).entry.resolvedAt

\* The verdict an entry holds: active, or inactive with its reason.
Held(entry) == [active |-> entry.active, reason |-> entry.reason]

\* C1: verify never rejects, and a settled call holds one of the two result
\* shapes, whatever the cache read, the directory and the cache write did.
C1_VerifyNeverThrows ==
  \A c \in Callers :
    /\ calls[c].pc \in {"idle", "get", "fetch", "done"}
    /\ calls[c].pc = "done" => TwoShapes(calls[c].result)

\* C1 witness: a call settled, with the failure verdict, after an
\* unparsable cached value and a request that timed out.
C1_Witness ==
  \E c \in Callers :
    /\ calls[c].pc = "done"
    /\ calls[c].read = "unparsable"
    /\ calls[c].outcome.kind = "timeout"
    /\ calls[c].result = Inactive("DID document resolution failed")

\* C2: when cache.get finds an entry at most DID_DOC_SOFT_TTL old (exactly
\* that old included), verify returns the verdict the entry holds, and
\* sends no request to the directory, launches no refresh, writes nothing.
C2_FreshHit ==
  [][\A c \in Callers :
       (GetResolved(c) /\ FoundEntry(c) /\ FoundAge(c) <= 3600 * 1000)
         => /\ calls'[c].pc = "done"
            /\ calls'[c].result = Held(Found(c).entry)
            /\ calls'[c].fetches = 0
            /\ calls'[c].refreshes = 0
            /\ calls'[c].sets = 0
            /\ tasks' = tasks
            /\ store' = store]_vars

\* C2 witness: an inactive entry exactly one hour old was served.
C2_Witness ==
  \E c \in Callers :
    /\ calls[c].pc = "done"
    /\ calls[c].read = "fresh"
    /\ calls[c].result = Inactive("DID has been tombstoned")
    /\ store[CacheKey(calls[c].did)].raw = "json"
    /\ DateNow - store[CacheKey(calls[c].did)].entry.resolvedAt = 3600 * 1000

\* C3: when cache.get finds an entry older than the soft TTL, verify settles
\* in that same step with the verdict the entry holds, having awaited no
\* request, and exactly one background request is launched; and no later
\* step changes a settled call, whatever the background request does.
C3_StaleHit ==
  [][\A c \in Callers :
       /\ (GetResolved(c) /\ FoundEntry(c) /\ FoundAge(c) > 3600 * 1000)
            => /\ calls'[c].pc = "done"
               /\ calls'[c].result = Held(Found(c).entry)
               /\ calls'[c].fetches = 0
               /\ calls'[c].refreshes = 1
               /\ tasks' = tasks (+) SetToBag(
                    {[pc |-> "fetch", did |-> calls[c].did, req |-> NoRequest]})
               /\ store' = store
       /\ (calls[c].pc = "done" /\ calls'[c].pc = "done")
            => calls'[c] = calls[c]]_vars

\* C3 witness: a stale active entry was served, its refresh has run and
\* stored "tombstoned", and the settled call still says active.
C3_Witness ==
  \E c \in Callers :
    /\ calls[c].pc = "done"
    /\ calls[c].read = "stale"
    /\ calls[c].result = Active
    /\ tasks = EmptyBag
    /\ store[CacheKey(calls[c].did)].raw = "json"
    /\ ~store[CacheKey(calls[c].did)].entry.active

\* C4 as stated: on a cold cache a failed resolution returns inactive with
\* the reason "resolution failed".
C4_AsStated ==
  \A c \in Callers :
    (calls[c].pc = "done" /\ Cold(calls[c]) /\ FailedOutcome(calls[c].outcome))
      => calls[c].result = Inactive("resolution failed")

\* C4: on a cold cache (miss, failed read, unparsable value) a resolution
\* that fails by network error, timeout or unexpected status returns
\* inactive with the reason "DID document resolution failed", never active.
C4_FailClosed ==
  \A c \in Callers :
    (calls[c].pc = "done" /\ Cold(calls[c]) /\ FailedOutcome(calls[c].outcome))
      => calls[c].result = Inactive("DID document resolution failed")

\* C4 witness: a miss followed by a network error.
C4_Witness ==
  \E c \in Callers :
    /\ calls[c].pc = "done"
    /\ calls[c].read = "miss"
    /\ calls[c].outcome.kind = "network error"
    /\ ~calls[c].result.active

\* A step in which the awaited request of caller c ends and verify settles.
ResolveSettled(c) == calls[c].pc = "fetch" /\ calls'[c].pc = "done"

\* The detached cache.set of verdict `result` for `did`, sent now with `ttl`.
WriteOf(did, result, ttl) ==
  [pc |-> "set", did |-> did,
   req |-> [key |-> <<"barazo:did-doc:">> \o did,
            value |-> [raw |-> "json",
                       entry |-> [active |-> result.active,
                                  reason |-> result.reason,
                                  resolvedAt |-> DateNow],
                       expireAt |-> 0],
            ttl |-> ttl]]

\* A step in which the cache.set in flight t takes effect.
SetResolved(t) ==
  /\ BagIn(t, tasks)
  /\ t.pc = "set"
  /\ tasks' = tasks (-) SetToBag({t})
  /\ store' # store

\* The mapping of the directory's answer, with the reasons as the claim
\* words them and as the code words them.
MappedAsStated(status) ==
  IF status = 410 THEN Inactive("tombstoned")
  ELSE IF status = 404 THEN Inactive("not found")
  ELSE Active

Mapped(status) ==
  IF status = 410 THEN Inactive("DID has been tombstoned")
  ELSE IF status = 404 THEN Inactive("DID not found in PLC directory")
  ELSE Active

\* C5 as stated: a cold-cache resolution answered 200, 410 or 404 returns
\* active, inactive "tombstoned", inactive "not found", and writes that
\* verdict under the identity's key with the hard TTL.
C5_AsStated ==
  [][\A c \in Callers :
       (ResolveSettled(c) /\ calls'[c].outcome.status \in {200, 404, 410})
         => /\ calls'[c].result = MappedAsStated(calls'[c].outcome.status)
            /\ tasks' = tasks (+) SetToBag(
                 {WriteOf(calls[c].did, MappedAsStated(calls'[c].outcome.status), 7200)})]_vars

\* C5: a cold-cache resolution answered 200, 410 or 404 returns active,
\* inactive "DID has been tombstoned", inactive "DID not found in PLC
\* directory"; in the same step a cache.set of that verdict, stamped with
\* the current time, is sent under the identity's key with a TTL of 7200 s
\* and not awaited; when it takes effect the key holds that entry and
\* expires 2 hours later.
C5_ResolveMapsAndCaches ==
  [][/\ \A c \in Callers :
          (ResolveSettled(c) /\ calls'[c].outcome.status \in {200, 404, 410})
            => /\ Cold(calls[c])
               /\ calls'[c].result = Mapped(calls'[c].outcome.status)
               /\ tasks' = tasks (+) SetToBag(
                    {WriteOf(calls[c].did, Mapped(calls'[c].outcome.status), 7200)})
     /\ \A t \in BagToSet(tasks) :
          SetResolved(t)
            => store' = [store EXCEPT ![t.req.key] =
                           [raw |-> "json", entry |-> t.req.value.entry,
                            expireAt |-> DateNow + t.req.ttl * 1000]]]_vars

\* C5 witness: after a miss answered 410 the key holds the tombstoned
\* verdict that was returned, expiring 2 hours after it was resolved.
C5_Witness ==
  \E c \in Callers :
    /\ calls[c].pc = "done"
    /\ calls[c].read = "miss"
    /\ calls[c].outcome.status = 410
    /\ calls[c].result = Inactive("DID has been tombstoned")
    /\ store[CacheKey(calls[c].did)].raw = "json"
    /\ store[CacheKey(calls[c].did)].entry.reason = <<"DID has been tombstoned">>
    /\ store[CacheKey(calls[c].did)].expireAt
         = store[CacheKey(calls[c].did)].entry.resolvedAt + 7200 * 1000

\* The verdict of a live resolution that ended with outcome o.
LiveVerdict(o) ==
  IF FailedOutcome(o)
  THEN Inactive("DID document resolution failed")
  ELSE Mapped(o.status)

\* A step in which a cache.set in flight rejects.
SetRejected(t) ==
  /\ BagIn(t, tasks)
  /\ t.pc = "set"
  /\ tasks' = tasks (-) SetToBag({t})
  /\ store' = store

\* C6: a call whose cache read failed has made one request to the directory
\* and returns the verdict of that live resolution; and a cache.set that
\* rejects changes no call's verdict.
C6_CacheFailuresKeepVerdict ==
  /\ [](\A c \in Callers :
          /\ (calls[c].read = "error" /\ calls[c].pc # "get")
               => calls[c].pc \in {"fetch", "done"} /\ calls[c].fetches = 1
          /\ (calls[c].read = "error" /\ calls[c].pc = "done")
               => calls[c].result = LiveVerdict(calls[c].outcome))
  /\ [][\A t \in BagToSet(tasks) : SetRejected(t) => calls' = calls]_vars

\* C6 witness: the read failed, the directory answered 200, the write
\* failed too (nothing was stored), and the call says active.
C6_Witness ==
  \E c \in Callers :
    /\ calls[c].pc = "done"
    /\ calls[c].read = "error"
    /\ calls[c].outcome.status = 200
    /\ calls[c].result = Active
    /\ tasks = EmptyBag
    /\ store[CacheKey(calls[c].did)].raw # "json"

\* The DID uses the centralized directory scheme: it starts with "did:plc:".
UsesPlc(did) == Len(did) >= 3 /\ did[1] = "did" /\ did[2] = "plc"

\* C7: a call for a DID that does not start with "did:plc:" settles at once
\* with active, and makes no cache read, no cache write and no request,
\* whatever the store holds and whatever is in flight.
C7_SelfHostedBypass ==
  [][\A c \in Callers :
       (calls[c].pc = "idle" /\ calls'[c].pc # "idle" /\ ~UsesPlc(calls'[c].did))
         => /\ calls'[c].pc = "done"
            /\ calls'[c].result = Active
            /\ calls'[c].gets = 0
            /\ calls'[c].fetches = 0
            /\ calls'[c].refreshes = 0
            /\ calls'[c].sets = 0
            /\ store' = store
            /\ tasks' = tasks]_vars

\* C7 witness: "did:plc" without the colon was answered active while its
\* key held a value and promises were in flight.
C7_Witness ==
  \E c \in Callers :
    /\ calls[c].pc = "done"
    /\ calls[c].did = <<"did", "plc">>
    /\ calls[c].result = Active
    /\ store[CacheKey(calls[c].did)] # NoValue
    /\ tasks # EmptyBag

\* ------------------------------------------------------------------------
\* Timestamp clamp: properties
\* ------------------------------------------------------------------------

\* C8: the clamped time lies in [now - 1h, now + 5min], both ends included.
C8_ClampWithinWindow ==
  clampCall.pc = "returned"
    => /\ clampCall.returned >= clampCall.now - 3600000
       /\ clampCall.returned <= clampCall.now + 300000

\* C8 witness: a client time a day old came back as now - 1h.
C8_Witness ==
  /\ clampCall.pc = "returned"
  /\ clampCall.clientCreatedAt = clampCall.now - 86400000
  /\ clampCall.returned = clampCall.now - 3600000

\* C9: later than now + 5min gives now; earlier than now - 1h gives
\* now - 1h; anything else, the two boundaries included, comes back
\* unchanged.
C9_ClampPolicy ==
  clampCall.pc = "returned"
    => clampCall.returned =
         IF clampCall.clientCreatedAt > clampCall.now + 300000
         THEN clampCall.now
         ELSE IF clampCall.clientCreatedAt < clampCall.now - 3600000
         THEN clampCall.now - 3600000
         ELSE clampCall.clientCreatedAt

\* C9 witness: exactly now + 5min came back unchanged.
C9_Witness ==
  /\ clampCall.pc = "returned"
  /\ clampCall.clientCreatedAt = clampCall.now + 300000
  /\ clampCall.returned = clampCall.clientCreatedAt
  /\ clampCall.now > 0

\* ------------------------------------------------------------------------
\* Record validator: properties
\* ------------------------------------------------------------------------

\* C10 as stated: the checks run in the order collection, size, schema and
\* stop at the first failure; an unknown collection fails with
\* "unsupported collection: <name>" after the collection check alone; a
\* document of more than 64 KiB is rejected without the schema check.
C10_AsStated ==
  (valCall.pc = "returned" /\ valCall.record.json = "text")
    => /\ valCall.out.checks \in
            {<<"collection">>, <<"collection", "size">>,
             <<"collection", "size", "schema">>}
       /\ valCall.collection \notin SUPPORTED_COLLECTIONS
            => /\ ~valCall.out.success
               /\ valCall.out.error = <<"unsupported collection: ", valCall.collection>>
               /\ valCall.out.checks = <<"collection">>
       /\ (valCall.collection \in SUPPORTED_COLLECTIONS
             /\ valCall.record.bytes > 65536)
            => /\ ~valCall.out.success
               /\ valCall.out.checks = <<"collection", "size">>

\* The size check is what rejected the record.
RejectedBySize(out) ==
  /\ ~out.threw
  /\ ~out.success
  /\ out.error = <<"Record exceeds maximum size of ", "65536", " bytes">>

\* C11 as stated: a document whose serialized length in bytes exceeds 65536
\* is rejected, and one of exactly 65536 bytes is not rejected by the size
\* check, characters of more than one byte included.
C11_AsStated ==
  (/\ valCall.pc = "returned"
   /\ valCall.collection \in SUPPORTED_COLLECTIONS
   /\ valCall.record.json = "text")
    => /\ valCall.record.bytes > 65536 => ~valCall.out.success
       /\ valCall.record.bytes = 65536 => ~RejectedBySize(valCall.out)

\* ------------------------------------------------------------------------
\* Record handler: properties
\* ------------------------------------------------------------------------

\* The indexer every supported collection is mapped to, and the entry point
\* of every action.
IndexerOf(collection) ==
  CASE collection = "forum.atgora.topic.post" -> "topic"
    [] collection = "forum.atgora.topic.reply" -> "reply"
    [] collection = "forum.atgora.interaction.reaction" -> "reaction"

EntryOf(action) ==
  CASE action = "create" -> "handleCreate"
    [] action = "update" -> "handleUpdate"
    [] action = "delete" -> "handleDelete"

\* The event of the invocation is for a supported collection, carries a
\* payload, and the payload passes validateRecord for its collection.
ValidPayload(inv) ==
  /\ inv.event.collection \in SUPPORTED_COLLECTIONS
  /\ inv.event.record # NoPayload
  /\ ~validateRecord(inv.event.collection, inv.event.record).threw
  /\ validateRecord(inv.event.collection, inv.event.record).success

\* The calls of upsertUserWithTrustCheck that can fail.
TrustCalls ==
  {"users.select", "resolveCreationDate", "users.update", "users.insert",
   "determineTrustStatus"}

\* C12: the promise handle returns is never rejected, whatever the
\* compensating lookup, the validator, the user store, the Account-Age
\* service and the indexers do; and once an event is settled, failed or
\* not, handle can be called with any next event.
C12_HandleNeverRejects ==
  \A h \in Consumers :
    /\ handling[h].pc \in
         {"idle", "select", "users.select", "resolveCreationDate",
          "users.update", "users.insert", "indexer", "done"}
    /\ handling[h].failed # {} => handling[h].pc \in {"indexer", "done"}
    /\ handling[h].pc = "done" => \A event \in Events : ENABLED Handle(h, event)

\* C12 witness: the event before failed, and this one, a create, went
\* through to its indexer, which returned.
C12_Witness ==
  \E h \in Consumers :
    /\ handling[h].after = "failed"
    /\ handling[h].pc = "done"
    /\ handling[h].failed = {}
    /\ Len(handling[h].sent) = 1
    /\ handling[h].sent[1].entry = "handleCreate"

\* C13: an indexer's handleCreate or handleUpdate is called only for an
\* event whose collection is supported, whose payload is present, and whose
\* payload validateRecord accepted for that collection, after it did.
C13_OnlyValidReachesIndexer ==
  \A h \in Consumers :
    \A i \in 1..Len(handling[h].sent) :
      handling[h].sent[i].entry \in {"handleCreate", "handleUpdate"}
        => /\ ValidPayload(handling[h])
           /\ handling[h].ops[1] =
                Op("validation", "validateRecord", handling[h].event.collection)
           /\ handling[h].sent[i].params.record = handling[h].event.record

\* C13 witness: a reply of valid payload was passed to handleUpdate.
C13_Witness ==
  \E h \in Consumers :
    /\ handling[h].event.collection = "forum.atgora.topic.reply"
    /\ handling[h].event.record = Doc("text", 120, 120, "forum.atgora.topic.reply")
    /\ Len(handling[h].sent) = 1
    /\ handling[h].sent[1].entry = "handleUpdate"
    /\ handling[h].sent[1].indexer = "reply"

\* The table the compensating lookup of the invocation reads, and the name
\* of the reference it recovers.
LookupTable(inv) ==
  IF inv.event.collection = "forum.atgora.topic.reply"
  THEN db.replies
  ELSE db.reactions

RefName(inv) ==
  IF inv.event.collection = "forum.atgora.topic.reply"
  THEN "rootUri"
  ELSE "subjectUri"

\* A step in which the compensating lookup of consumer h returns rows.
LookupReturned(h) ==
  /\ handling[h].pc = "select"
  /\ handling'[h].pc # "select"
  /\ "select" \notin handling'[h].failed

\* C14: when the compensating lookup of a delete event for a reply or a
\* reaction finds no row for the event's uri, handleDelete of the matching
\* indexer is called, with an empty rootUri / subjectUri; it is the only
\* call on an indexer for that event, and handle does not reject whether
\* that call returns or rejects.
C14_DeleteOfAbsentRow ==
  [][\A h \in Consumers :
       /\ (LookupReturned(h) /\ ~LookupTable(handling[h])[uriOf(handling[h].event)].present)
            => /\ handling'[h].pc = "indexer"
               /\ handling'[h].sent =
                    <<[indexer |-> IndexerOf(handling[h].event.collection),
                       entry |-> "handleDelete",
                       params |-> deleteParams(handling[h], RefName(handling[h]), "")]>>
       /\ (handling[h].pc = "indexer" /\ handling[h].event.action = "delete")
            => /\ handling'[h].pc = "done"
               /\ handling'[h].sent = handling[h].sent]_vars

\* C14 witness: the delete of a reaction that has no row is settled, its
\* handleDelete having been called with an empty subjectUri.
C14_Witness ==
  \E h \in Consumers :
    /\ handling[h].pc = "done"
    /\ handling[h].event.action = "delete"
    /\ handling[h].event.collection = "forum.atgora.interaction.reaction"
    /\ handling[h].failed = {}
    /\ ~handling[h].found.present
    /\ Len(handling[h].sent) = 1
    /\ handling[h].sent[1].params.refName = "subjectUri"
    /\ handling[h].sent[1].params.ref = ""

\* A step in which consumer h is handed an event.
EventStarts(h) ==
  /\ handling[h].pc \in {"idle", "done"}
  /\ handling'[h].pc # "idle"
  /\ handling'[h] # handling[h]

\* C15: an event of a collection outside the three supported ones is
\* settled in the step that hands it over, whatever its action, payload and
\* cid, with no call on any collaborator (no indexer, no select or write on
\* the local store, no Account-Age call, no validation, no log entry) and
\* the local store unchanged.
C15_UnsupportedDroppedSilently ==
  [][\A h \in Consumers :
       (EventStarts(h) /\ handling'[h].event.collection \notin SUPPORTED_COLLECTIONS)
         => /\ handling'[h].pc = "done"
            /\ handling'[h].ops = <<>>
            /\ handling'[h].sent = <<>>
            /\ handling'[h].failed = {}
            /\ db' = db]_vars

\* C15 witness: a create event of a foreign collection, whose payload has
\* the shape of a topic post, was dropped with nothing called.
C15_Witness ==
  \E h \in Consumers :
    /\ handling[h].pc = "done"
    /\ handling[h].event.collection = "app.bsky.feed.post"
    /\ handling[h].event.action = "create"
    /\ handling[h].event.record = Doc("text", 120, 120, "forum.atgora.topic.post")
    /\ handling[h].ops = <<>>

\* C16: once the select on users, the update or insert on users,
\* resolveCreationDate or determineTrustStatus has failed for a create
\* event, handleCreate of the matching indexer has been called for that
\* event, once, with trustStatus "trusted".
C16_TrustFailsOpen ==
  \A h \in Consumers :
    handling[h].failed \cap TrustCalls # {}
      => /\ handling[h].event.action = "create"
         /\ ValidPayload(handling[h])
         /\ handling[h].pc \in {"indexer", "done"}
         /\ Len(handling[h].sent) = 1
         /\ handling[h].sent[1].indexer = IndexerOf(handling[h].event.collection)
         /\ handling[h].sent[1].entry = "handleCreate"
         /\ handling[h].sent[1].params.uri = uriOf(handling[h].event)
         /\ handling[h].sent[1].params.trustStatus = "trusted"

\* C16 witness: the account was resolved as 10 minutes old, the insert of
\* its user row rejected, and the topic was indexed as "trusted".
C16_Witness ==
  \E h \in Consumers :
    /\ handling[h].pc = "done"
    /\ handling[h].failed = {"users.insert"}
    /\ handling[h].createdAt = DateAt(-(10 * 60 * 1000))
    /\ Len(handling[h].sent) = 1
    /\ handling[h].sent[1].indexer = "topic"
    /\ handling[h].sent[1].params.trustStatus = "trusted"

\* The creation date the trust check of the invocation goes by: the one
\* stored on the user row the select returned, or else the one
\* resolveCreationDate returned.
CreationDateOf(inv) ==
  IF inv.row.present /\ inv.row.accountCreatedAt.set
  THEN inv.row.accountCreatedAt
  ELSE inv.createdAt

\* C17 as stated: when no call of the trust check failed for a create
\* event, the trustStatus passed to handleCreate is the classification of
\* the identity's creation date, stored or else resolved: "trusted" for an
\* identity created 2 hours ago, "new" for one created 10 minutes ago.
C17_AsStated ==
  \A h \in Consumers :
    (/\ handling[h].event.action = "create"
     /\ handling[h].sent # <<>>
     /\ handling[h].failed \cap TrustCalls = {})
      => /\ handling[h].sent[1].entry = "handleCreate"
         /\ CreationDateOf(handling[h]) = DateAt(DateNow - 2 * 60 * 60 * 1000)
              => handling[h].sent[1].params.trustStatus = "trusted"
         /\ CreationDateOf(handling[h]) = DateAt(DateNow - 10 * 60 * 1000)
              => handling[h].sent[1].params.trustStatus = "new"

\* C17: when no call of the trust check failed for a create event, the
\* trustStatus passed to handleCreate is determineTrustStatus of the
\* identity's creation date, stored or else resolved: "new" for an
\* identity created 10 minutes, 2 hours, or 24 hours less 1 ms ago,
\* "trusted" for one created 24 hours ago and for one of no known date.
C17_TrustStatusOfCreationDate ==
  \A h \in Consumers :
    (/\ handling[h].event.action = "create"
     /\ handling[h].sent # <<>>
     /\ handling[h].failed \cap TrustCalls = {})
      => /\ handling[h].sent[1].entry = "handleCreate"
         /\ handling[h].sent[1].params.trustStatus =
              determineTrustStatus(CreationDateOf(handling[h]))
         /\ CreationDateOf(handling[h]) \in
                {DateAt(DateNow - 10 * 60 * 1000),
                 DateAt(DateNow - 2 * 60 * 60 * 1000),
                 DateAt(DateNow - 24 * 60 * 60 * 1000 + 1)}
              => handling[h].sent[1].params.trustStatus = "new"
         /\ CreationDateOf(handling[h]) \in
                {DateAt(DateNow - 24 * 60 * 60 * 1000), NoDate}
              => handling[h].sent[1].params.trustStatus = "trusted"

\* C17 witness: the user row held a creation date 2 hours back, and the
\* reply was passed to handleCreate as "new".
C17_Witness ==
  \E h \in Consumers :
    /\ handling[h].event.action = "create"
    /\ handling[h].event.collection = "forum.atgora.topic.reply"
    /\ handling[h].row = UserRow(DateAt(-(2 * 60 * 60 * 1000)))
    /\ handling[h].failed = {}
    /\ handling[h].pc = "done"
    /\ Len(handling[h].sent) = 1
    /\ handling[h].sent[1].params.trustStatus = "new"

\* The one call the settled invocation made on an indexer is on the indexer
\* its collection is mapped to, at the entry point of its action, for the
\* uri at://<did>/<collection>/<rkey>.
Routed(inv) ==
  /\ Len(inv.sent) = 1
  /\ inv.sent[1].indexer = IndexerOf(inv.event.collection)
  /\ inv.sent[1].entry = EntryOf(inv.event.action)
  /\ inv.sent[1].params.uri =
       <<"at://", inv.event.did, "/", inv.event.collection, "/", inv.event.rkey>>

\* C18 as stated: every settled create or update event of a supported
\* collection whose payload passed validation was routed.
C18_AsStated ==
  \A h \in Consumers :
    (/\ handling[h].pc = "done"
     /\ handling[h].event.action \in {"create", "update"}
     /\ ValidPayload(handling[h]))
      => Routed(handling[h])

\* C18: every settled create or update event of a supported collection
\* whose payload passed validation was routed, but for the update of a
\* reaction, for which no indexer was called.
C18_Routing ==
  \A h \in Consumers :
    (/\ handling[h].pc = "done"
     /\ handling[h].event.action \in {"create", "update"}
     /\ ValidPayload(handling[h]))
      => IF /\ handling[h].event.action = "update"
            /\ handling[h].event.collection = "forum.atgora.interaction.reaction"
         THEN handling[h].sent = <<>>
         ELSE Routed(handling[h])

\* C18 witness: a created reaction went to handleCreate of the reaction
\* indexer, which returned.
C18_Witness ==
  \E h \in Consumers :
    /\ handling[h].pc = "done"
    /\ handling[h].failed = {}
    /\ handling[h].event.action = "create"
    /\ handling[h].event.collection = "forum.atgora.interaction.reaction"
    /\ Len(handling[h].sent) = 1
    /\ handling[h].sent[1].indexer = "reaction"
    /\ handling[h].sent[1].entry = "handleCreate"
    /\ db.reactions[uriOf(handling[h].event)].present

\* C19: a create or update event of a supported collection that carries no
\* payload is settled in the step that hands it over, with one warning
\* logged and nothing else called: no validateRecord, no select or write on
\* the local store, no Account-Age call, no indexer.
C19_MissingPayloadDropped ==
  [][\A h \in Consumers :
       (/\ EventStarts(h)
        /\ handling'[h].event.collection \in SUPPORTED_COLLECTIONS
        /\ handling'[h].event.action \in {"create", "update"}
        /\ handling'[h].event.record = NoPayload)
         => /\ handling'[h].pc = "done"
            /\ handling'[h].ops =
                 <<Op("logger", "warn", "Record event missing record data")>>
            /\ handling'[h].sent = <<>>
            /\ handling'[h].failed = {}
            /\ db' = db]_vars

\* C19 witness: a create of a reply without payload was logged and dropped.
C19_Witness ==
  \E h \in Consumers :
    /\ handling[h].pc = "done"
    /\ handling[h].event.collection = "forum.atgora.topic.reply"
    /\ handling[h].event.action = "create"
    /\ handling[h].event.record = NoPayload
    /\ Len(handling[h].ops) = 1
    /\ handling[h].ops[1].on = "logger"

\* A step in which an indexer's entry point, called by consumer h, returns.
IndexerReturned(h) ==
  /\ handling[h].pc = "indexer"
  /\ handling'[h].pc = "done"
  /\ "indexer" \notin handling'[h].failed

\* C20 as stated: every change of the local store is the work of an
\* indexer's handleCreate, handleUpdate or handleDelete, and the handler
\* itself only selects from the store.
C20_AsStated ==
  [][/\ db' # db => \E h \in Consumers : IndexerReturned(h)
     /\ \A h \in Consumers :
          \A i \in 1..Len(handling'[h].ops) :
            handling'[h].ops[i].on = "db" => handling'[h].ops[i].call = "select"]_vars

\* C20: an invocation starts with nothing of the one before it; the
\* replies and reactions tables change only when an indexer's entry point
\* returns, and the handler only selects from them; the users table
\* changes only by the handler's own insert or update, awaited for a create
\* event whose payload passed validation, and only in the row of the
\* event's identity, which held no creation date and now holds the one
\* resolveCreationDate returned.
C20_HandlerWritesUserRowsOnly ==
  [][\A h \in Consumers :
       /\ EventStarts(h)
            => /\ handling'[h].trust = "trusted"
               /\ handling'[h].row = NoUser
               /\ handling'[h].createdAt = NoDate
               /\ handling'[h].found = NoRow
               /\ Len(handling'[h].ops) <= 2
               /\ Len(handling'[h].sent) <= 1
       /\ (db'.replies # db.replies \/ db'.reactions # db.reactions)
            => /\ IndexerReturned(h)
               /\ db'.users = db.users
       /\ \A i \in 1..Len(handling'[h].ops) :
            (handling'[h].ops[i].on = "db" /\ handling'[h].ops[i].call # "select")
              => handling'[h].ops[i].note = "users"
       /\ db'.users # db.users
            => /\ handling[h].pc \in {"users.insert", "users.update"}
               /\ handling[h].event.action = "create"
               /\ ValidPayload(handling[h])
               /\ ~db.users[handling[h].event.did].accountCreatedAt.set
               /\ db'.users = [db.users EXCEPT ![handling[h].event.did] =
                                 UserRow(handling[h].createdAt)]]_vars

\* C20 witness: the handler has inserted the user row of an identity
\* resolved as created 2 hours back, and the topic's indexer has returned.
C20_Witness ==
  \E h \in Consumers :
    /\ handling[h].pc = "done"
    /\ handling[h].event.action = "create"
    /\ handling[h].failed = {}
    /\ ~handling[h].row.present
    /\ handling[h].createdAt = DateAt(-(2 * 60 * 60 * 1000))
    /\ db.users[handling[h].event.did] = UserRow(handling[h].createdAt)
    /\ Len(handling[h].sent) = 1

\* ------------------------------------------------------------------------
\* Auth hooks: properties
\* ------------------------------------------------------------------------

\* The user a hook attaches for a session.
UserOf(session) ==
  [did |-> session.did, handle |-> session.handle, sid |-> session.sid]

\* The statuses of the responses sent on the request of caller c.
StatusesSent(c) == {auth[c].sent[i].status : i \in 1..Len(auth[c].sent)}

\* C21: request.user is set only when the header carried a well-formed
\* bearer token, the session service returned a session for it without
\* throwing, and the verifier returned active for that session's did; it is
\* then that session's user. requireAuth never both sets request.user and
\* sends a response (under requireAdmin: a response of requireAuth's, 401
\* or 502).
C21_UserOnlyWhenVerified ==
  \A c \in Callers :
    /\ auth[c].user # NoSession =>
         /\ extractBearerToken(auth[c].header) # Undefined
         /\ auth[c].session \in Sessions
         /\ auth[c].threw \cap {"session", "verify"} = {}
         /\ auth[c].asked = auth[c].session.did
         /\ auth[c].result = Active
         /\ auth[c].user = UserOf(auth[c].session)
    /\ auth[c].hook = "requireAuth" =>
         ~(auth[c].user # NoSession /\ auth[c].sent # <<>>)
    /\ auth[c].hook = "optionalAuth" => auth[c].sent = <<>>
    /\ auth[c].hook = "requireAdmin" =>
         ~(auth[c].user # NoSession /\ StatusesSent(c) \cap {401, 502} # {})

C21_Witness ==
  \E c \in Callers :
    /\ auth[c].pc = "done"
    /\ auth[c].hook = "requireAuth"
    /\ auth[c].user = UserOf(auth[c].session)
    /\ auth[c].session.did = PlcDid
    /\ auth[c].read = "stale"
    /\ auth[c].sent = <<>>

\* requireAuth has run to its end on the request of caller c, alone or as
\* the first step of requireAdmin.
RequireAuthEnded(c) ==
  /\ auth[c].hook \in {"requireAuth", "requireAdmin"}
  /\ auth[c].pc \in {"select", "done", "rejected"}

\* didVerifier.verify returned to the hook of caller c.
VerifyReturned(c) == auth[c].asked # <<>>

\* C22: requireAuth answers 502 exactly when the session service threw, the
\* verifier threw, or the verifier returned the resolution-failure verdict;
\* it answers 401 exactly when the token is missing or malformed, the
\* session service returned no session, or the verifier returned inactive
\* with another reason. A verdict the verifier served from a stale cache
\* entry never leads to 502.
C22_StatusOfRequireAuth ==
  \A c \in Callers :
    RequireAuthEnded(c) =>
      /\ 502 \in StatusesSent(c) <=>
           \/ auth[c].threw \cap {"session", "verify"} # {}
           \/ /\ VerifyReturned(c)
              /\ auth[c].result = Inactive(REASON_RESOLUTION_FAILED)
      /\ 401 \in StatusesSent(c) <=>
           \/ extractBearerToken(auth[c].header) = Undefined
           \/ /\ extractBearerToken(auth[c].header) # Undefined
              /\ auth[c].session = NoSession
              /\ "session" \notin auth[c].threw
           \/ /\ VerifyReturned(c)
              /\ ~auth[c].result.active
              /\ auth[c].result # Inactive(REASON_RESOLUTION_FAILED)
      /\ auth[c].read = "stale" => 502 \notin StatusesSent(c)

C22_Witness ==
  \E c \in Callers :
    /\ auth[c].pc = "done"
    /\ auth[c].hook = "requireAuth"
    /\ auth[c].read = "miss"
    /\ auth[c].result = Inactive(REASON_RESOLUTION_FAILED)
    /\ auth[c].sent = <<[status |-> 502, error |-> "Service temporarily unavailable"]>>

\* A request answered from a stale entry: 401 for a tombstoned identity.
C22_StaleServed ==
  \E c \in Callers :
    /\ auth[c].pc = "done"
    /\ auth[c].hook = "requireAuth"
    /\ auth[c].read = "stale"
    /\ auth[c].result = Inactive(REASON_TOMBSTONED)
    /\ auth[c].sent = <<[status |-> 401, error |-> "DID is no longer active"]>>

\* C23: optionalAuth never sends a response and its promise never rejects;
\* when the token is missing or malformed, the session service returns no
\* session or throws, or the verifier returns inactive or throws, it ends
\* with request.user undefined.
C23_OptionalAuthContinues ==
  \A c \in Callers :
    auth[c].hook = "optionalAuth" =>
      /\ auth[c].sent = <<>>
      /\ auth[c].pc \in {"idle", "session", "verify", "done"}
      /\ auth[c].queries = 0
      /\ ( /\ auth[c].pc = "done"
           /\ \/ extractBearerToken(auth[c].header) = Undefined
              \/ auth[c].session = NoSession
              \/ auth[c].threw # {}
              \/ VerifyReturned(c) /\ ~auth[c].result.active )
         => auth[c].user = NoSession

C23_Witness ==
  \E c \in Callers :
    /\ auth[c].pc = "done"
    /\ auth[c].hook = "optionalAuth"
    /\ auth[c].threw = {"verify"}
    /\ auth[c].session \in Sessions
    /\ auth[c].user = NoSession
    /\ auth[c].sent = <<>>

\* C24: requireAdmin completes without sending a response only if
\* requireAuth attached a user and the row selected for that user has role
\* "admin"; when requireAuth has sent a response users is not queried; an
\* authenticated user with no row or with another role is answered 403.
C24_AdminOnly ==
  \A c \in Callers :
    auth[c].hook = "requireAdmin" =>
      /\ (auth[c].pc = "done" /\ auth[c].sent = <<>>) =>
           /\ auth[c].user = UserOf(auth[c].session)
           /\ auth[c].session \in Sessions
           /\ auth[c].result = Active
           /\ auth[c].queries = 1
           /\ auth[c].role = "admin"
      /\ StatusesSent(c) \cap {401, 502} # {} => auth[c].queries = 0
      /\ auth[c].user = NoSession => auth[c].queries = 0
      /\ (auth[c].pc = "done" /\ auth[c].queries = 1 /\ auth[c].role # "admin") =>
           auth[c].sent = <<[status |-> 403, error |-> "Admin access required"]>>

C24_Witness ==
  \E c \in Callers :
    /\ auth[c].pc = "done"
    /\ auth[c].hook = "requireAdmin"
    /\ auth[c].user = UserOf(auth[c].session)
    /\ auth[c].session.did = PlcDid
    /\ auth[c].role = "admin"
    /\ auth[c].queries = 1
    /\ auth[c].sent = <<>>

\* ------------------------------------------------------------------------
\* Setup service: properties
\* ------------------------------------------------------------------------

\* What initialize has returned to user u.
InitializeReturned(u) == setup[u].pc = "done"

\* C25: with calls one after the other, an initialize(did) that finds no row
\* or a row not initialized and returns, returns initialized: true with that
\* did and leaves the row initialized with that did as adminDid; one that
\* finds the row initialized returns {alreadyInitialized: true} and has
\* issued no insert and no update; the row, once initialized, never changes.
C25_OneShotWhenSequential ==
  /\ [](\A u \in Initializers :
          InitializeReturned(u) =>
            IF setup[u].existing.present /\ setup[u].existing.initialized
            THEN /\ setup[u].result = AlreadyInitialized
                 /\ setup[u].writes = <<>>
            ELSE /\ setup[u].result = Initialized(setup[u].did, setup[u].finalName)
                 /\ Len(setup[u].writes) = 1
                 /\ settings = SettingsRow(TRUE, setup[u].did, setup[u].finalName))
  /\ [][(settings.present /\ settings.initialized) => settings' = settings]_vars

C25_Witness ==
  /\ InitializeReturned("u1")
  /\ InitializeReturned("u2")
  /\ setup["u1"].result = Initialized(PlcDid, DEFAULT_COMMUNITY_NAME)
  /\ setup["u1"].writes = <<"insert">>
  /\ setup["u2"].did = WebDid
  /\ setup["u2"].communityName = "Custom Name"
  /\ setup["u2"].result = AlreadyInitialized
  /\ settings = SettingsRow(TRUE, PlcDid, DEFAULT_COMMUNITY_NAME)

\* ------------------------------------------------------------------------
\* Verifier: background revalidation
\* ------------------------------------------------------------------------

\* What a background revalidation can have to report: the verdicts of the
\* directory, and the failure of the request.
RevalidationOutcomes ==
  {Active, Inactive(REASON_TOMBSTONED), Inactive(REASON_NOT_FOUND),
   Inactive(REASON_RESOLUTION_FAILED)}

\* A step in which the request of the background refresh t ends.
RefreshEnded(t) ==
  /\ BagIn(t, tasks)
  /\ t.pc = "fetch"
  /\ CopiesIn(t, tasks') = CopiesIn(t, tasks) - 1

\* C26 as stated: when the request of a background revalidation ends, with
\* a verdict or with a failure, a write of that outcome stamped with the
\* current time is sent to the cache with the hard TTL.
C26_AsStated ==
  [][\A t \in BagToSet(tasks) :
       RefreshEnded(t)
         => \E r \in RevalidationOutcomes :
              tasks' = (tasks (-) SetToBag({t}))
                         (+) SetToBag({WriteOf(t.did, r, DID_DOC_HARD_TTL)})]_vars

\* C26: when the request of a background revalidation is answered 200, 410
\* or 404, a write of the verdict, stamped with the current time, is sent
\* to the cache under the identity's key with the hard TTL; when it takes
\* effect the key holds that entry and expires 2 hours later. When the
\* request fails (network error, timeout, another status) nothing is sent
\* and the cache is left as it is.
C26_RevalidationWritesVerdicts ==
  [][/\ \A t \in BagToSet(tasks), o \in Outcomes :
          RefreshResolveEnds(t, o)
            => IF o.kind = "response" /\ o.status \in {200, 404, 410}
               THEN /\ tasks' = (tasks (-) SetToBag({t}))
                                  (+) SetToBag({WriteOf(t.did, Mapped(o.status),
                                                        DID_DOC_HARD_TTL)})
                    /\ store' = store
               ELSE /\ tasks' = tasks (-) SetToBag({t})
                    /\ store' = store
     /\ \A t \in BagToSet(tasks) :
          SetResolved(t)
            => store' = [store EXCEPT ![t.req.key] =
                           [raw |-> "json", entry |-> t.req.value.entry,
                            expireAt |-> DateNow + DID_DOC_HARD_TTL * 1000]]]_vars

\* C26 witness: a call was served a stale entry, and the key now holds an
\* entry resolved at the current time that expires 2 hours from now.
C26_Witness ==
  \E c \in Callers :
    /\ calls[c].pc = "done"
    /\ calls[c].read = "stale"
    /\ calls[c].result = Active
    /\ now >= 2
    /\ tasks = EmptyBag
    /\ store[CacheKey(calls[c].did)].raw = "json"
    /\ store[CacheKey(calls[c].did)].entry.reason = <<REASON_TOMBSTONED>>
    /\ store[CacheKey(calls[c].did)].entry.resolvedAt = DateNow
    /\ store[CacheKey(calls[c].did)].expireAt = DateNow + DID_DOC_HARD_TTL * 1000

\* C27: a background revalidation whose request fails (network error,
\* timeout, a status that is neither a success nor 410 nor 404), and a
\* cache write that rejects, end there: the store is left as it is (the
\* entry's verdict, its resolvedAt and its expiry), no call of verify is
\* changed, and nothing is started in its place.
C27_FailedRevalidationDiscarded ==
  [][/\ \A t \in BagToSet(tasks), o \in Outcomes :
          (RefreshResolveEnds(t, o) /\ FailedOutcome(o))
            => /\ store' = store
               /\ calls' = calls
               /\ tasks' = tasks (-) SetToBag({t})
     /\ \A t \in BagToSet(tasks) :
          CacheSetRejects(t)
            => /\ store' = store
               /\ calls' = calls
               /\ tasks' = tasks (-) SetToBag({t})]_vars

\* C27 witness: a call was served a stale entry, its revalidation has ended
\* and the key still holds the entry as it was: resolved at 0, expiring 2
\* hours after.
C27_Witness ==
  \E c \in Callers :
    /\ calls[c].pc = "done"
    /\ calls[c].read = "stale"
    /\ calls[c].refreshes = 1
    /\ tasks = EmptyBag
    /\ store[CacheKey(calls[c].did)].raw = "json"
    /\ store[CacheKey(calls[c].did)].entry.resolvedAt = 0
    /\ store[CacheKey(calls[c].did)].expireAt = DID_DOC_HARD_TTL * 1000
    /\ store[CacheKey(calls[c].did)].entry.active = calls[c].result.active

\* A step that sends the cache.set t.
SetSent(t) == t.pc = "set" /\ CopiesIn(t, tasks') > CopiesIn(t, tasks)

\* C28: every call that reads a stale entry launches a background refresh
\* of its own, whatever refreshes are in flight for the same did; a
\* cache.set that takes effect replaces the key's value whatever it held,
\* so the key holds what the last write to take effect wrote; and every
\* cache.set sent carries the verdict of a request to the directory that
\* was answered (200, 410 or 404) in that very step, so the store never
\* holds anything else as a parsable entry.
C28_RevalidationsIndependent ==
  /\ [][/\ \A c \in Callers :
             (GetResolved(c) /\ calls'[c].read = "stale")
               => tasks' = tasks (+) SetToBag({backgroundRefresh(calls[c].did)})
        /\ \A t \in BagToSet(tasks) :
             SetResolved(t)
               => /\ store'[t.req.key].entry = t.req.value.entry
                  /\ \A k \in Keys \ {t.req.key} : store'[k] = store[k]
        /\ \A t \in BagToSet(tasks') :
             SetSent(t)
               => \E o \in Outcomes :
                    /\ o.kind = "response" /\ o.status \in {200, 404, 410}
                    /\ t = WriteOf(t.did, Mapped(o.status), DID_DOC_HARD_TTL)
                    /\ \/ \E c \in Callers : ResolveEnds(c, o)
                       \/ \E u \in BagToSet(tasks) : RefreshResolveEnds(u, o)]_vars
  /\ [](\A k \in Keys :
          store[k].raw = "json"
            => cachedVerdict(store[k].entry)
                 \in {Active, Inactive(REASON_TOMBSTONED), Inactive(REASON_NOT_FOUND)})

\* C28 witness: two background refreshes of the same did are in flight,
\* launched by two calls that read the same stale entry.
C28_Witness ==
  \E c \in Callers :
    /\ calls[c].pc = "done"
    /\ calls[c].read = "stale"
    /\ CopiesIn(backgroundRefresh(calls[c].did), tasks) = 2
    /\ store[CacheKey(calls[c].did)].entry.resolvedAt = 0

\* ------------------------------------------------------------------------
\* Record handler: order of the calls
\* ------------------------------------------------------------------------

\* The positions in the trace of the invocation of the calls on `on`.
CallsOn(inv, on) == {i \in 1..Len(inv.ops) : inv.ops[i].on = on}

\* The invocation has made no call of the trust check: no select or write
\* on users, no call on the Account-Age service.
NoTrustCheck(inv) ==
  /\ CallsOn(inv, "accountAgeService") = {}
  /\ \A i \in CallsOn(inv, "db") : inv.ops[i].note # "users"
  /\ inv.pc \notin {"users.select", "resolveCreationDate", "users.update", "users.insert"}
  /\ inv.failed \cap TrustCalls = {}
  /\ inv.row = NoUser
  /\ inv.createdAt = NoDate

TrustCheckCalls(inv) ==
  CallsOn(inv, "accountAgeService")
    \cup {i \in CallsOn(inv, "db") : inv.ops[i].note = "users"}

\* C30: the trust check (select on users, resolveCreationDate, insert or
\* update of the user row, determineTrustStatus) is started only for a
\* create event whose payload validateRecord has accepted, after
\* validateRecord, which is the first call of the invocation; handleCreate
\* is called only once the trust check is over, after every call of it; an
\* update event, a delete event and an event that is dropped (collection
\* not supported, payload missing or rejected) make no call of the trust
\* check.
C30_ValidateThenTrustThenCreate ==
  \A h \in Consumers :
    LET inv == handling[h] IN
    /\ (inv.event.action = "create" /\ ValidPayload(inv)) \/ NoTrustCheck(inv)
    /\ TrustCheckCalls(inv) # {} =>
         /\ inv.ops[1] = Op("validation", "validateRecord", inv.event.collection)
         /\ 2 \in TrustCheckCalls(inv)
         /\ inv.ops[2] = Op("db", "select", "users")
    /\ \A j \in CallsOn(inv, "indexers") :
         inv.ops[j].call = "handleCreate" =>
           /\ inv.ops[1] = Op("validation", "validateRecord", inv.event.collection)
           /\ TrustCheckCalls(inv) # {}
           /\ \A i \in TrustCheckCalls(inv) : i < j
           /\ \A i \in CallsOn(inv, "validation") : i < j

\* C30 witness: a create of a topic is settled; validateRecord came first,
\* then the select on users, resolveCreationDate, the insert of the user
\* row and determineTrustStatus, and handleCreate last.
C30_Witness ==
  \E h \in Consumers :
    LET inv == handling[h] IN
    /\ inv.pc = "done"
    /\ inv.event.action = "create"
    /\ inv.event.collection = "forum.atgora.topic.post"
    /\ inv.failed = {}
    /\ Len(inv.ops) = 6
    /\ inv.ops[1].on = "validation"
    /\ inv.ops[2] = Op("db", "select", "users")
    /\ inv.ops[3].call = "resolveCreationDate"
    /\ inv.ops[4] = Op("db", "insert", "users")
    /\ inv.ops[5].call = "determineTrustStatus"
    /\ inv.ops[6] = Op("indexers", "handleCreate", "topic")

\* ------------------------------------------------------------------------
\* Record handler: concurrent and repeated deletes
\* ------------------------------------------------------------------------

\* C31: the compensating lookup and handleDelete are two steps with nothing
\* held between them: whenever the lookup of a delete event returns a row,
\* handleDelete is called with that row's reference, whatever another
\* invocation for the same uri has looked up or called; so two invocations
\* can both find the row and both pass its reference.
C31_LookupThenDeleteNotAtomic ==
  [][\A h \in Invocations :
       (LookupReturned(h) /\ LookupTable(handling[h])[uriOf(handling[h].event)].present)
         => /\ handling'[h].pc = "indexer"
            /\ handling'[h].sent =
                 <<[indexer |-> IndexerOf(handling[h].event.collection),
                    entry |-> "handleDelete",
                    params |-> deleteParams(
                      handling[h], RefName(handling[h]),
                      LookupTable(handling[h])[uriOf(handling[h].event)].ref)]>>
            /\ db' = db]_vars

\* C31 witness: two invocations have handled the delete of the same reply;
\* both lookups found the row, both handleDelete calls were passed its
\* rootUri, and both returned.
C31_Witness ==
  /\ handling["k1"].pc = "done"
  /\ handling["k2"].pc = "done"
  /\ handling["k1"].event.collection = "forum.atgora.topic.reply"
  /\ handling["k2"].event = handling["k1"].event
  /\ handling["k1"].failed = {}
  /\ handling["k2"].failed = {}
  /\ handling["k1"].found = Row(RootUri)
  /\ handling["k2"].found = Row(RootUri)
  /\ Len(handling["k1"].sent) = 1
  /\ Len(handling["k2"].sent) = 1
  /\ handling["k1"].sent[1].params.ref = RootUri
  /\ handling["k2"].sent[1].params.ref = RootUri
  /\ handling["k1"].after = "first"
  /\ handling["k2"].after = "first"

\* The row of the event's uri in the table d of its collection.
RowOf(d, event) ==
  IF event.collection = "forum.atgora.topic.reply"
  THEN d.replies[uriOf(event)]
  ELSE d.reactions[uriOf(event)]

\* The invocation handles a delete of a reply or a reaction.
DeletesRow(inv) ==
  /\ inv.event.action = "delete"
  /\ inv.event.collection
       \in {"forum.atgora.topic.reply", "forum.atgora.interaction.reaction"}

\* C32: with one event handled at a time, handleDelete is passed a
\* non-empty reference only when the lookup found the row; once a
\* handleDelete has returned the row is gone, and it is back only once a
\* handleCreate for that uri has returned; so after a delete that passed the
\* reference and returned, a redelivery of it passes the empty reference.
C32_RedeliveredDeletePassesNoReference ==
  /\ [][\A h \in Consumers :
          /\ (LookupReturned(h) /\ handling'[h].sent # <<>>)
               => handling'[h].sent[1].params.ref =
                    IF RowOf(db, handling[h].event).present
                    THEN RowOf(db, handling[h].event).ref ELSE ""
          /\ (IndexerReturned(h) /\ DeletesRow(handling[h]))
               => ~RowOf(db', handling[h].event).present
          /\ \A e \in DeleteEvents :
               (e.collection # "forum.atgora.topic.post"
                  /\ ~RowOf(db, e).present /\ RowOf(db', e).present)
                 => /\ IndexerReturned(h)
                    /\ handling[h].sent[1].entry = "handleCreate"
                    /\ handling[h].sent[1].params.uri = uriOf(e)]_vars
  /\ [](\A h \in Consumers :
          (/\ DeletesRow(handling[h])
           /\ handling[h].after = handling[h].event.collection
           /\ handling[h].sent # <<>>)
            => /\ handling[h].sent[1].params.ref = ""
               /\ handling[h].found = NoRow)

\* C32 witness: the delete of a reaction was handled and passed the
\* subjectUri; the same delete, delivered again, is settled and passed none.
C32_Witness ==
  \E h \in Consumers :
    /\ handling[h].pc = "done"
    /\ handling[h].event.action = "delete"
    /\ handling[h].event.collection = "forum.atgora.interaction.reaction"
    /\ handling[h].after = "forum.atgora.interaction.reaction"
    /\ handling[h].failed = {}
    /\ Len(handling[h].sent) = 1
    /\ handling[h].sent[1].entry = "handleDelete"
    /\ handling[h].sent[1].params.refName = "subjectUri"
    /\ handling[h].sent[1].params.ref = ""

\* The users initialize has returned initialized: true to.
ToldInitialized ==
  {u \in Initializers : InitializeReturned(u) /\ setup[u].result.initialized}

\* C33 as stated: whatever the interleaving of the calls of initialize by
\* different users, they do not both return initialized: true, and the
\* adminDid stored is the did of the call that did.
C33_AsStated ==
  /\ \A u, v \in ToldInitialized : setup[u].did = setup[v].did
  /\ \A u \in ToldInitialized : settings.adminDid = setup[u].did

\* ------------------------------------------------------------------------
\* Verifier: what the cache holds, and for how long
\* ------------------------------------------------------------------------

\* The verdicts the directory attests.
Attested == {Active, Inactive(REASON_TOMBSTONED), Inactive(REASON_NOT_FOUND)}

\* C34: no entry in the store and no cache.set in flight holds the
\* resolution-failure verdict: each holds active, tombstoned or not found.
\* A call that returns the resolution-failure verdict has read nothing
\* usable from the cache and has made its own request to the directory,
\* which failed; and a call that reads nothing usable always goes on to the
\* directory.
C34_FailureNeverCached ==
  /\ [](/\ \A k \in Keys :
             store[k].raw = "json" => Held(store[k].entry) \in Attested
        /\ \A t \in BagToSet(tasks) :
             t.pc = "set" => Held(t.req.value.entry) \in Attested
        /\ \A c \in Callers :
             (calls[c].pc = "done"
                /\ calls[c].result = Inactive(REASON_RESOLUTION_FAILED))
               => /\ Cold(calls[c])
                  /\ calls[c].fetches = 1
                  /\ FailedOutcome(calls[c].outcome)
                  /\ calls[c].sets = 0)
  /\ [][\A c \in Callers :
          (GetResolved(c) /\ ~FoundEntry(c)) => calls'[c].pc = "fetch"]_vars

\* C34 witness: a call on a cold cache has returned the resolution-failure
\* verdict after a timeout, at a time when an earlier call could have
\* cached something; nothing is cached and nothing is on its way.
C34_Witness ==
  \E c \in Callers :
    /\ calls[c].pc = "done"
    /\ calls[c].read = "miss"
    /\ calls[c].outcome.kind = "timeout"
    /\ calls[c].result = Inactive(REASON_RESOLUTION_FAILED)
    /\ now = 1
    /\ store[CacheKey(calls[c].did)].raw = "none"
    /\ tasks = EmptyBag

\* A step in which caller c is served from the cache.
ServedFromCache(c) ==
  GetResolved(c) /\ calls'[c].read \in {"fresh", "stale"}

\* C35 as stated: every verdict served from the cache comes from an entry
\* whose age, now - resolvedAt, is at most the hard TTL.
C35_AsStated ==
  [][\A c \in Callers :
       ServedFromCache(c) => FoundAge(c) <= DID_DOC_HARD_TTL * 1000]_vars

\* C35: every verdict served from the cache comes from an entry that was
\* set at most the hard TTL before: an entry expires 2 hours after its
\* cache.set took effect, which is no earlier than its resolvedAt, so its
\* age when served is at most the hard TTL plus the time its cache.set took
\* to take effect. The store changes only when a cache.set takes effect: a
\* revalidation that fails and a cache.set that rejects leave every entry's
\* expiry as it is.
C35_BoundedStaleness ==
  [][/\ \A c \in Callers :
          ServedFromCache(c)
            => /\ DateNow <= Found(c).expireAt
               /\ Found(c).entry.resolvedAt + DID_DOC_HARD_TTL * 1000
                    <= Found(c).expireAt
     /\ \A t \in BagToSet(tasks) :
          SetResolved(t)
            => /\ store'[t.req.key].expireAt = DateNow + DID_DOC_HARD_TTL * 1000
               /\ store'[t.req.key].entry.resolvedAt <= DateNow
     /\ store' # store => \E t \in BagToSet(tasks) : SetResolved(t)
     /\ \A t \in BagToSet(tasks), o \in Outcomes :
          (RefreshResolveEnds(t, o) /\ FailedOutcome(o)) => store' = store]_vars

\* C35 witness: a call is served an entry resolved 3 hours ago whose
\* cache.set took effect 2 hours ago.
C35_Witness ==
  \E c \in Callers :
    /\ calls[c].pc = "done"
    /\ calls[c].read = "stale"
    /\ now = 3
    /\ store[CacheKey(calls[c].did)].raw = "json"
    /\ store[CacheKey(calls[c].did)].entry.resolvedAt = 0
    /\ store[CacheKey(calls[c].did)].expireAt = DateNow

\* ------------------------------------------------------------------------
\* C36  Eventual revocation: while the directory answers 410 for an
\* identity and verify keeps being called for it, with the detached
\* promises and the clock going on, verify returns again and again, and
\* from some point on every verdict it has returned is inactive.
ReturnedVerdict(c) == calls[c].pc = "done"

C36_EventualRevocation ==
  /\ []<>(\E c \in Callers : ReturnedVerdict(c) /\ ~calls[c].result.active)
  /\ <>[](\A c \in Callers : ReturnedVerdict(c) => ~calls[c].result.active)

\* The verdict active has been served from the cache after the directory
\* started answering 410.
C36_Witness ==
  \E c \in Callers :
    /\ ReturnedVerdict(c)
    /\ calls[c].result.active
    /\ calls[c].read = "stale"
    /\ calls[c].did = PlcDid

\* ------------------------------------------------------------------------
\* C37  Every event handled has made at most one call on an indexer, and the
\* one call it made is on the indexer its collection is mapped to, at the
\* entry point of its action; an event of a collection that is not
\* supported has made none.
C37_AtMostOneIndexerCall ==
  \A h \in Consumers :
    /\ Len(handling[h].sent) <= 1
    /\ Cardinality(CallsOn(handling[h], "indexers")) = Len(handling[h].sent)
    /\ Len(handling[h].sent) = 1
         => /\ handling[h].event.collection \in SUPPORTED_COLLECTIONS
            /\ handling[h].sent[1].indexer = IndexerOf(handling[h].event.collection)
            /\ handling[h].sent[1].entry = EntryOf(handling[h].event.action)

\* C37 witness: handleUpdate of the reply indexer rejected; the event was
\* settled with that one call made.
C37_Witness ==
  \E h \in Consumers :
    /\ handling[h].pc = "done"
    /\ handling[h].event.action = "update"
    /\ handling[h].event.collection = "forum.atgora.topic.reply"
    /\ "indexer" \in handling[h].failed
    /\ Len(handling[h].sent) = 1
    /\ handling[h].sent[1].indexer = "reply"
    /\ handling[h].sent[1].entry = "handleUpdate"

\* ------------------------------------------------------------------------
\* C38 as stated: validateRecord is total: whatever the collection and the
\* raw record, an absent or unserializable one included, the call returns a
\* ValidationResult and does not throw; on success data is the record it
\* was given.
C38_AsStated ==
  valCall.pc = "returned"
    => /\ ~valCall.out.threw
       /\ valCall.out.success => valCall.out.data = valCall.record
       /\ ~valCall.out.success => valCall.out.error # <<>>

\* ------------------------------------------------------------------------
\* The client times the returned call's own is compared with: those tried
\* around its now.
OtherTimes == {clampCall.now + d : d \in ClampOffsets}

\* a is within 5 minutes after now and b is later than that.
AcrossFutureBound(a, b, nowDate) ==
  /\ nowDate < a
  /\ a <= nowDate + MAX_FUTURE_MS
  /\ nowDate + MAX_FUTURE_MS < b

\* C39 as stated: for a fixed now and client times a <= b, the clamp of a
\* is not later than the clamp of b.
C39_AsStated ==
  clampCall.pc = "returned"
    => \A a \in OtherTimes :
         /\ a <= clampCall.clientCreatedAt
              => clampCreatedAt(a, clampCall.now) <= clampCall.returned
         /\ clampCall.clientCreatedAt <= a
              => clampCall.returned <= clampCreatedAt(a, clampCall.now)

\* C39: for a fixed now and client times a <= b, the clamp of a is not
\* later than the clamp of b, unless now < a <= now + 5min < b: there the
\* clamp of b is now, earlier than the clamp of a, which is a.
C39_OrderPreservedUpToFutureBound ==
  clampCall.pc = "returned"
    => \A a \in OtherTimes :
         LET b == clampCall.clientCreatedAt
             n == clampCall.now
         IN  /\ (a <= b /\ ~AcrossFutureBound(a, b, n))
                  => clampCreatedAt(a, n) <= clampCall.returned
             /\ (b <= a /\ ~AcrossFutureBound(b, a, n))
                  => clampCall.returned <= clampCreatedAt(a, n)
             /\ (a <= b /\ AcrossFutureBound(a, b, n))
                  => /\ clampCall.returned = n
                     /\ clampCreatedAt(a, n) = a
                     /\ clampCall.returned < clampCreatedAt(a, n)

\* C39 witness: a client time 10 minutes ahead came back as now, while
\* one 3 minutes ahead comes back unchanged.
C39_Witness ==
  /\ clampCall.pc = "returned"
  /\ clampCall.clientCreatedAt = clampCall.now + 600000
  /\ clampCall.returned = clampCall.now
  /\ clampCall.now + 180000 \in OtherTimes
  /\ clampCreatedAt(clampCall.now + 180000, clampCall.now) = clampCall.now + 180000

====
